---- MODULE Spec2Model ----
(***************************************************************************)
(* Credential store, token validator/refresher, inventory query service    *)
(* and batch notifier of the stock-monitoring worker.                      *)
(*                                                                         *)
(* Every invocation (one request or one scheduled run) is a process whose  *)
(* position pc is the await it is suspended at.  A step of a process is    *)
(* the completion of that await followed by the synchronous code up to the *)
(* next await or to the return.  Calls to the credentials durable object   *)
(* are executed one at a time by the object, so each is one step.          *)
(***************************************************************************)
EXTENDS Integers, Sequences, FiniteSets, TLC

(* ------------------------------ bounds --------------------------------- *)

\* The clock advances at most MaxTicks times (TickMs each).
MaxTicks == 1

\* Largest inventory the external API reports.
MaxItems == 2

\* Calls on the store per behaviour when the store is exercised alone.
MaxStoreCalls == 4

\* Calls on the store by other requests while token operations are in flight.
MaxInterference == 1


(* --------------------------- value domains ----------------------------- *)

\* Invocations that may be in flight at the same time.
Procs == {1, 2}

Locations == {"L1", "L2"}

\* Arguments a caller may pass as locationId: a location or the empty string.
LocationArgs == Locations \cup {""}

TickMs == 1000

\* Bodies the OAuth token endpoint answers with on a 2xx status:
\* "" and 0 stand for a field that is absent from the JSON.
OAuthBodies ==
    { [access_token |-> "A2", refresh_token |-> "R2", expires_in |-> 2],
      [access_token |-> "A3", refresh_token |-> "R3", expires_in |-> 1],
      [access_token |-> "",   refresh_token |-> "R2", expires_in |-> 2],
      [access_token |-> "A2", refresh_token |-> "",   expires_in |-> 2],
      [access_token |-> "A2", refresh_token |-> "R2", expires_in |-> 0] }

\* Recipient lists an administrator may configure.
EmailLists == { << >>, <<"a@x.io">>, <<"a@x.io", "b@x.io">>, <<"b@x.io", "a@x.io">> }

\* How a call on the durable-object stub can go wrong: "rpc" is the stub call
\* itself rejecting, "sql" is sql.exec throwing inside the object.
Faults == {"none", "rpc", "sql"}

(* ------------------- Date.toISOString / new Date(s) -------------------- *)

\* Rendering of the instants the model can reach, one per second.
IsoStrings ==
    << "1970-01-01T00:00:00.000Z", "1970-01-01T00:00:01.000Z",
       "1970-01-01T00:00:02.000Z", "1970-01-01T00:00:03.000Z",
       "1970-01-01T00:00:04.000Z", "1970-01-01T00:00:05.000Z",
       "1970-01-01T00:00:06.000Z", "1970-01-01T00:00:07.000Z",
       "1970-01-01T00:00:08.000Z", "1970-01-01T00:00:09.000Z" >>

\* The value of an invalid Date.
NaN == -1

\* new Date(ms).toISOString()
toISOString(ms) == IsoStrings[(ms \div 1000) + 1]

\* new Date(s).getTime(): NaN for a string that is not a date.
getTime(s) ==
    IF \E i \in DOMAIN IsoStrings : IsoStrings[i] = s
    THEN ((CHOOSE i \in DOMAIN IsoStrings : IsoStrings[i] = s) - 1) * 1000
    ELSE NaN

\* a < b on JavaScript numbers: false as soon as one side is NaN.
NumLess(a, b) == a # NaN /\ b # NaN /\ a < b

(* ---------------------- CredentialsDurableObject ----------------------- *)

\* JSON.stringify(emails || []): the text stored in column receiver_emails.
arrayToJson(emails) == <<"json">> \o emails

\* JSON.parse with the fallbacks of jsonToArray: anything that does not parse
\* to an array gives the empty list.
jsonToArray(jsonString) ==
    IF Len(jsonString) > 0 /\ Head(jsonString) = "json"
    THEN Tail(jsonString)
    ELSE << >>

\* SqlStorageCursor.one(): the row when the query has exactly one row; it
\* throws when the query has no row.
CursorOneThrows(rows) == Cardinality(rows) # 1

\* SELECT ... FROM credentials WHERE location_id = ?
SelectWhere(creds, locationId) ==
    { creds[l] : l \in {k \in DOMAIN creds : k = locationId} }

\* A row as getCredentials hands it out: the columns plus receiverEmails.
ProcessedRow(row) ==
    [ location_id     |-> row.location_id,
      company_id      |-> row.company_id,
      access_token    |-> row.access_token,
      refresh_token   |-> row.refresh_token,
      expires_at      |-> row.expires_at,
      receiver_emails |-> row.receiver_emails,
      receiverEmails  |-> jsonToArray(row.receiver_emails) ]

\* Orders in which SELECT * FROM credentials may return the rows.
RowOrders(creds) ==
    { o \in [1..Cardinality(DOMAIN creds) -> DOMAIN creds] :
        \A i, j \in DOMAIN o : i # j => o[i] # o[j] }

\* getCredentials(locationId?) with the rows of a full scan returned in `order`.
getCredentials(creds, locationId, order, sqlFails) ==
    IF sqlFails
    THEN [ status |-> "ERROR", httpCode |-> 500, errorCode |-> "DATABASE_ERROR" ]
    ELSE IF locationId # ""
    THEN IF CursorOneThrows(SelectWhere(creds, locationId))
         THEN [ status |-> "ERROR", httpCode |-> 500, errorCode |-> "DATABASE_ERROR" ]
         ELSE IF SelectWhere(creds, locationId) = {}
         THEN [ status |-> "NOT_FOUND", httpCode |-> 404, errorCode |-> "" ]
         ELSE [ status |-> "SUCCESS", httpCode |-> 200,
                data |-> ProcessedRow(creds[locationId]) ]
    ELSE [ status |-> "SUCCESS", httpCode |-> 200,
           data |-> [ i \in DOMAIN order |-> ProcessedRow(creds[order[i]]) ] ]

\* credentialsResult.data is defined
HasData(res) == "data" \in DOMAIN res

\* insertCredential without its existence check: INSERT OR REPLACE overwrites.
insertCredential_Replace(creds, credential, sqlFails) ==
    IF sqlFails
    THEN [ creds |-> creds, status |-> "ERROR", httpCode |-> 500,
           errorCode |-> "DATABASE_ERROR" ]
    ELSE [ creds |->
             [ l \in DOMAIN creds \cup {credential.location_id} |->
                 IF l = credential.location_id
                 THEN [ location_id     |-> credential.location_id,
                        company_id      |-> credential.company_id,
                        access_token    |-> credential.access_token,
                        refresh_token   |-> credential.refresh_token,
                        expires_at      |-> credential.expires_at,
                        receiver_emails |-> arrayToJson(credential.receiver_emails) ]
                 ELSE creds[l] ],
           status |-> "SUCCESS", httpCode |-> 201, errorCode |-> "" ]

\* insertCredential: the new table and the result.  receiver_emails is the
\* list given under that name, [] when the caller gave none.
insertCredential(creds, credential, sqlFails) ==
    IF sqlFails
    THEN [ creds |-> creds, status |-> "ERROR", httpCode |-> 500,
           errorCode |-> "DATABASE_ERROR" ]
    ELSE IF SelectWhere(creds, credential.location_id) # {}
    THEN [ creds |-> creds, status |-> "ERROR", httpCode |-> 409,
           errorCode |-> "DUPLICATE_LOCATION" ]
    ELSE [ creds |->
             [ l \in DOMAIN creds \cup {credential.location_id} |->
                 IF l = credential.location_id
                 THEN [ location_id     |-> credential.location_id,
                        company_id      |-> credential.company_id,
                        access_token    |-> credential.access_token,
                        refresh_token   |-> credential.refresh_token,
                        expires_at      |-> credential.expires_at,
                        receiver_emails |-> arrayToJson(credential.receiver_emails) ]
                 ELSE creds[l] ],
           status |-> "SUCCESS", httpCode |-> 201, errorCode |-> "" ]

\* updateReceiverEmails adding the new addresses to the stored ones instead of
\* overwriting the column.
updateReceiverEmails_Append(creds, location_id, receiverEmails, sqlFails) ==
    IF sqlFails \/ CursorOneThrows(SelectWhere(creds, location_id))
    THEN [ creds |-> creds, status |-> "ERROR", httpCode |-> 500,
           errorCode |-> "DATABASE_ERROR" ]
    ELSE [ creds |-> [ creds EXCEPT ![location_id].receiver_emails =
                                        arrayToJson(jsonToArray(@) \o receiverEmails) ],
           status |-> "SUCCESS", httpCode |-> 200, errorCode |-> "" ]

\* updateReceiverEmails(location_id, receiverEmails)
updateReceiverEmails(creds, location_id, receiverEmails, sqlFails) ==
    IF sqlFails \/ CursorOneThrows(SelectWhere(creds, location_id))
    THEN [ creds |-> creds, status |-> "ERROR", httpCode |-> 500,
           errorCode |-> "DATABASE_ERROR" ]
    ELSE IF SelectWhere(creds, location_id) = {}
    THEN [ creds |-> creds, status |-> "ERROR", httpCode |-> 404,
           errorCode |-> "NOT_FOUND" ]
    ELSE [ creds |-> [ creds EXCEPT ![location_id].receiver_emails =
                                        arrayToJson(receiverEmails) ],
           status |-> "SUCCESS", httpCode |-> 200, errorCode |-> "" ]

\* deleteCredential(location_id)
deleteCredential(creds, location_id, sqlFails) ==
    IF sqlFails \/ CursorOneThrows(SelectWhere(creds, location_id))
    THEN [ creds |-> creds, status |-> "ERROR", httpCode |-> 500,
           errorCode |-> "DATABASE_ERROR" ]
    ELSE IF SelectWhere(creds, location_id) = {}
    THEN [ creds |-> creds, status |-> "ERROR", httpCode |-> 404,
           errorCode |-> "NOT_FOUND" ]
    ELSE [ creds |-> [ l \in DOMAIN creds \ {location_id} |-> creds[l] ],
           status |-> "SUCCESS", httpCode |-> 200, errorCode |-> "" ]

\* The UPDATE leaving expires_at to a second statement that is never run.
UpdateTokens_TwoColumns(row, newAccessToken, newRefreshToken, expiresAt) ==
    [ row EXCEPT !.access_token  = newAccessToken,
                 !.refresh_token = newRefreshToken ]

\* UPDATE credentials SET access_token = ?, refresh_token = ?, expires_at = ?
\* applied to the row it selects (lines 466-470).
UpdateTokens(row, newAccessToken, newRefreshToken, expiresAt) ==
    [ row EXCEPT !.access_token  = newAccessToken,
                 !.refresh_token = newRefreshToken,
                 !.expires_at    = expiresAt ]

\* updateTokenPair written as update_credential is: the row is deleted and
\* inserted again from the token fields alone.
updateTokenPair_Reinsert(creds, locationId, newAccessToken, newRefreshToken, expiresAt, sqlFails) ==
    IF locationId = "" \/ newAccessToken = "" \/ newRefreshToken = "" \/ expiresAt = ""
    THEN [ creds |-> creds, success |-> FALSE,
           message |-> <<"Missing required parameters">> ]
    ELSE IF sqlFails \/ CursorOneThrows(SelectWhere(creds, locationId))
    THEN [ creds |-> creds, success |-> FALSE,
           message |-> <<"Failed to update token pair: ">> ]
    ELSE [ creds |-> [ creds EXCEPT ![locationId] =
                         [ location_id     |-> locationId,
                           company_id      |-> "",
                           access_token    |-> newAccessToken,
                           refresh_token   |-> newRefreshToken,
                           expires_at      |-> expiresAt,
                           receiver_emails |-> arrayToJson(<< >>) ] ],
           success |-> TRUE,
           message |-> <<"Token pair updated successfully">> ]

\* updateTokenPair(locationId, newAccessToken, newRefreshToken, expiresAt)
updateTokenPair(creds, locationId, newAccessToken, newRefreshToken, expiresAt, sqlFails) ==
    IF locationId = "" \/ newAccessToken = "" \/ newRefreshToken = "" \/ expiresAt = ""
    THEN [ creds |-> creds, success |-> FALSE,
           message |-> <<"Missing required parameters">> ]
    ELSE IF sqlFails \/ CursorOneThrows(SelectWhere(creds, locationId))
    THEN [ creds |-> creds, success |-> FALSE,
           message |-> <<"Failed to update token pair: ">> ]
    ELSE IF SelectWhere(creds, locationId) = {}
    THEN [ creds |-> creds, success |-> FALSE,
           message |-> <<"Credential with location_id '", locationId, "' not found">> ]
    ELSE [ creds |-> [ creds EXCEPT ![locationId] =
                         UpdateTokens(@, newAccessToken, newRefreshToken, expiresAt) ],
           success |-> TRUE,
           message |-> <<"Token pair updated successfully">> ]

(* ------------------------------ results -------------------------------- *)

NoBody == [ access_token |-> "", refresh_token |-> "", expires_in |-> 0 ]

NoSummary ==
    [ location_id |-> "", total_items |-> 0, total_available_quantity |-> 0,
      unique_products |-> 0, items_with_stock |-> 0, items_out_of_stock |-> 0 ]

\* What a call produced: kind is "return" or "throw"; the other fields are the
\* fields of the returned object (or the message of the thrown error).
NoResult ==
    [ kind |-> "none", valid |-> FALSE, success |-> FALSE, value |-> "",
      newRefreshToken |-> "", expiresAt |-> "", message |-> << >>,
      summary |-> NoSummary ]

Thrown(message) == [ NoResult EXCEPT !.kind = "throw", !.message = message ]

Returned(value) == [ NoResult EXCEPT !.kind = "return", !.value = value ]

TokenValidationResult(valid, expiresAt, message) ==
    [ NoResult EXCEPT !.kind = "return", !.valid = valid,
                      !.expiresAt = expiresAt, !.message = message ]

RefreshFailure(message) ==
    [ NoResult EXCEPT !.kind = "return", !.success = FALSE, !.message = message ]

RefreshSuccess(newAccessToken, newRefreshToken, expiresAt) ==
    [ NoResult EXCEPT !.kind = "return", !.success = TRUE,
                      !.value = newAccessToken,
                      !.newRefreshToken = newRefreshToken,
                      !.expiresAt = expiresAt,
                      !.message = <<"Token refreshed successfully">> ]

EmptyBatchResult ==
    [ processedLocations |-> 0, emailsSent |-> 0, errors |-> << >>,
      locationsWithoutEmails |-> 0, locationsWithoutStock |-> 0 ]

\* BulkEmailResult before anything was sent.
EmptyBulkResult == [ totalSent |-> 0, totalFailed |-> 0, results |-> << >> ]

\* The state of an invocation that is not running.
IdleProc ==
    [ op |-> "none", pc |-> "idle", loc |-> "",
      refresh_token |-> "", tokenData |-> NoBody, expiresAt |-> "",
      accessToken |-> "", totalItems |-> 0,
      credentials |-> << >>, idx |-> 0, result |-> EmptyBatchResult,
      outcomes |-> << >>,
      validated |-> "none", validatedAt |-> 0,
      oauthCalls |-> 0, refreshCalls |-> 0, storeWrites |-> 0,
      inventoryCalls |-> 0, limits |-> << >>, counted |-> -1,
      items |-> << >>, inventorySummary |-> NoSummary, responses |-> << >>,
      receiverEmails |-> << >>, sends |-> << >>, bulk |-> EmptyBulkResult,
      fault |-> "none", sameRow |-> FALSE, peers |-> {}, raced |-> {},
      refreshResult |-> NoResult, ret |-> NoResult ]

\* The invocation has finished with result r; its locals are gone.
Done(ps, r) ==
    [ ps EXCEPT !.pc = "done", !.ret = r, !.tokenData = NoBody, !.expiresAt = "",
                !.accessToken = "", !.totalItems = 0, !.validatedAt = 0,
                !.sameRow = FALSE, !.peers = {}, !.raced = {} ]

(* --------------------------- Batch Notifier ---------------------------- *)

\* The listing with its check left out: a failed answer counts as an empty
\* table and the run goes on to return its (empty) result.
ListCredentials_Lenient(ps, credentialsResponse, fault) ==
    IF fault = "rpc"
    THEN Done([ ps EXCEPT !.fault = fault ], Thrown(<<"Process failed: ">>))
    ELSE [ ps EXCEPT !.pc = "b_iter", !.idx = 1, !.fault = fault,
                     !.credentials = IF HasData(credentialsResponse)
                                     THEN credentialsResponse.data ELSE << >> ]

\* The getCredentials() call of processAllClients completes (lines 50-59):
\* a rejected call or an answer that is not SUCCESS or has no data ends the
\* run with an error (rethrown at lines 130-134); otherwise the loop starts
\* at the first element.
ListCredentials(ps, credentialsResponse, fault) ==
    IF fault = "rpc"
    THEN Done([ ps EXCEPT !.fault = fault ], Thrown(<<"Process failed: ">>))
    ELSE IF \/ credentialsResponse.status # "SUCCESS"
            \/ ~HasData(credentialsResponse)
    THEN Done([ ps EXCEPT !.fault = fault ],
              Thrown(<<"Process failed: ", "Failed to retrieve credentials: ">>))
    ELSE [ ps EXCEPT !.pc = "b_iter", !.idx = 1,
                     !.credentials = credentialsResponse.data ]

\* generateStockStatusEmail reads inventorySummary.out_of_stock_products and
\* maps over it: a TypeError when the summary has no such property.
generateStockStatusEmailThrows(inventorySummary) ==
    "out_of_stock_products" \notin DOMAIN inventorySummary

\* A loop that passes over the element after the one it has finished.
NextLocation_Skip(ps, outcome, result) ==
    [ ps EXCEPT !.pc = "b_iter", !.idx = @ + 2, !.result = result,
                !.outcomes = Append(@, [ locationId |-> ps.loc,
                                         outcome |-> outcome,
                                         at |-> ps.validatedAt ]) ]

\* The location at position idx is finished with the given outcome; the loop
\* goes on to the next element of the list.
NextLocation(ps, outcome, result) ==
    [ ps EXCEPT !.pc = "b_iter", !.idx = @ + 1, !.result = result,
                !.outcomes = Append(@, [ locationId |-> ps.loc,
                                         outcome |-> outcome,
                                         at |-> ps.validatedAt ]) ]

\* The loop body without its recipient check: every location is queried.
ProcessLocation_NoSkip(ps, credential) ==
    [ ps EXCEPT !.pc = "v_get" ]

\* Lines 74-84: a location without recipients is counted and skipped; for
\* any other, queryInventorySummary is called.
ProcessLocation(ps, credential) ==
    IF credential.receiverEmails = << >>
    THEN NextLocation(ps, "noEmail",
             [ ps.result EXCEPT !.locationsWithoutEmails = @ + 1 ])
    ELSE [ ps EXCEPT !.pc = "v_get" ]

\* A per-location error leaving processAllClients through the outer catch.
RecordError_Abort(ps, message) ==
    Done(ps, Thrown(<<"Process failed: ">> \o message))

\* catch block of the per-location try (lines 115-122).
RecordError(ps, message) ==
    NextLocation(ps, "error",
        [ ps.result EXCEPT !.errors =
              Append(@, [ locationId |-> ps.loc, error |-> message ]) ])

\* The loop body without its test of items_out_of_stock: an email is built
\* for every summary.
AfterQuery_NoCheck(ps, qres) ==
    IF qres.kind = "throw"
    THEN RecordError(ps, qres.message)
    ELSE IF generateStockStatusEmailThrows(qres.summary)
    THEN RecordError(ps, <<"Cannot read properties of undefined (reading 'map')">>)
    ELSE [ ps EXCEPT !.pc = "b_send" ]

\* Lines 84-113: what the loop body does once queryInventorySummary has
\* returned or thrown.
AfterQuery(ps, qres) ==
    IF qres.kind = "throw"
    THEN RecordError(ps, qres.message)
    ELSE IF qres.summary.items_out_of_stock = 0
    THEN NextLocation(ps, "noStock",
             [ ps.result EXCEPT !.locationsWithoutStock = @ + 1 ])
    ELSE IF generateStockStatusEmailThrows(qres.summary)
    THEN RecordError(ps, <<"Cannot read properties of undefined (reading 'map')">>)
    ELSE [ ps EXCEPT !.pc = "b_send" ]

(* ----------------------- Inventory Query Service ----------------------- *)

\* item.availableQuantity || 0
Quantity(item) ==
    IF "availableQuantity" \in DOMAIN item THEN item.availableQuantity ELSE 0

RECURSIVE SumQuantity(_)
SumQuantity(items) ==
    IF items = << >> THEN 0
    ELSE Quantity(Head(items)) + SumQuantity(Tail(items))

\* The reduction counting as out of stock only the items that carry an
\* availableQuantity of 0.
Summarize_Strict(locationId, inventoryData) ==
    LET items == inventoryData.inventory IN
    [ location_id              |-> locationId,
      total_items              |-> inventoryData.total,
      total_available_quantity |-> SumQuantity(items),
      unique_products          |->
          Cardinality({ items[i].product : i \in DOMAIN items } \ {""}),
      items_with_stock         |->
          Cardinality({ i \in DOMAIN items : Quantity(items[i]) > 0 }),
      items_out_of_stock       |->
          Cardinality({ i \in DOMAIN items :
                          /\ "availableQuantity" \in DOMAIN items[i]
                          /\ items[i].availableQuantity = 0 }) ]

\* The reduction of queryInventorySummary (lines 558-579).
Summarize(locationId, inventoryData) ==
    LET items == inventoryData.inventory IN
    [ location_id              |-> locationId,
      total_items              |-> inventoryData.total,
      total_available_quantity |-> SumQuantity(items),
      unique_products          |->
          Cardinality({ items[i].product : i \in DOMAIN items } \ {""}),
      items_with_stock         |->
          Cardinality({ i \in DOMAIN items : Quantity(items[i]) > 0 }),
      items_out_of_stock       |->
          Cardinality({ i \in DOMAIN items : Quantity(items[i]) = 0 }) ]

\* A queryInventorySummary whose failure never reaches the caller awaiting it.
FinishQuery_Pending(ps, qres) ==
    IF ps.op = "query" THEN Done(ps, qres)
    ELSE IF qres.kind = "throw" THEN [ ps EXCEPT !.pc = "q_pending" ]
    ELSE AfterQuery(ps, qres)

\* queryInventorySummary has returned or thrown.
FinishQuery(ps, qres) ==
    IF ps.op = "query" THEN Done(ps, qres) ELSE AfterQuery(ps, qres)

\* getInventory returned inventoryData: queryInventorySummary reduces its
\* items to the summary it returns.
InventoryReturned(ps, inventoryData) ==
    LET summary == Summarize(ps.loc, inventoryData) IN
    FinishQuery([ ps EXCEPT !.items = inventoryData.inventory,
                            !.inventorySummary = summary ],
                [ NoResult EXCEPT !.kind = "return", !.summary = summary ])

\* A failure inside getInventory answered with the summary of an empty
\* inventory instead of an error.
InventoryThrew_Partial(ps, message) ==
    FinishQuery(ps, [ NoResult EXCEPT
                        !.kind = "return",
                        !.summary = Summarize(ps.loc, [ inventory |-> << >>,
                                                        total |-> 0 ]) ])

\* An error thrown inside getInventory's try: wrapped by getInventory's catch
\* and by queryInventorySummary's catch (lines 666-675, 583-587).
InventoryThrew(ps, message) ==
    FinishQuery(ps, Thrown(<<"Error generating inventory summary: ",
                             "API request failed: ">> \o message))

\* getInventory asking for a token a second time when the first attempt
\* failed.
AfterToken_Retry(ps, eres) ==
    IF eres.kind = "throw" /\ ps.refreshCalls < 2
    THEN [ ps EXCEPT !.pc = "v_get" ]
    ELSE IF eres.kind = "throw"
    THEN InventoryThrew(ps, <<"Failed to obtain valid credentials: ">> \o eres.message)
    ELSE [ ps EXCEPT !.pc = "i_count", !.accessToken = eres.value,
                     !.inventoryCalls = @ + 1, !.limits = Append(@, 0) ]

\* InventoryQueryService.ensureValidToken has returned or thrown (eres):
\* getInventory issues the count request, or the error propagates.
AfterToken(ps, eres) ==
    IF eres.kind = "throw"
    THEN InventoryThrew(ps, <<"Failed to obtain valid credentials: ">> \o eres.message)
    ELSE [ ps EXCEPT !.pc = "i_count", !.accessToken = eres.value,
                     !.inventoryCalls = @ + 1, !.limits = Append(@, 0) ]

\* getInventory issuing the full request whatever the count says.
AfterCount_AlwaysFetch(ps, totalItems) ==
    [ ps EXCEPT !.pc = "i_fetch", !.counted = totalItems,
                !.totalItems = totalItems,
                !.inventoryCalls = @ + 1, !.limits = Append(@, totalItems) ]

\* getInventory once the count request has answered totalItems (lines
\* 626-653): an empty inventory is returned at once, otherwise the full
\* request is issued with limit = totalItems.
AfterCount(ps, totalItems) ==
    IF totalItems = 0
    THEN InventoryReturned([ ps EXCEPT !.counted = 0 ],
                           [ inventory |-> << >>, total |-> 0 ])
    ELSE [ ps EXCEPT !.pc = "i_fetch", !.counted = totalItems,
                     !.totalItems = totalItems,
                     !.inventoryCalls = @ + 1, !.limits = Append(@, totalItems) ]

(* --------------------------- Token Validator --------------------------- *)

\* TokenValidator.ensureValidToken has returned or thrown.
FinishEnsure(ps, eres) ==
    IF ps.op = "ensure" THEN Done(ps, eres) ELSE AfterToken(ps, eres)

\* FinishRefresh handing the token out whatever the refresh result says.
FinishRefresh_IgnoreFailure(ps, rres) ==
    LET ps1 == [ ps EXCEPT !.refreshResult = rres ] IN
    IF ps.op = "refresh" THEN Done(ps1, rres)
    ELSE FinishEnsure(ps1, Returned(rres.value))

\* refreshToken has returned rres or thrown it (lines 237-243 for a caller
\* that is ensureValidToken).
FinishRefresh(ps, rres) ==
    LET ps1 == [ ps EXCEPT !.refreshResult = rres ] IN
    IF ps.op = "refresh" THEN Done(ps1, rres)
    ELSE IF rres.kind = "throw" THEN FinishEnsure(ps1, rres)
    ELSE IF ~rres.success
    THEN FinishEnsure(ps1, Thrown(<<"Failed to refresh token: ">> \o rres.message))
    ELSE FinishEnsure(ps1, Returned(rres.value))

\* isValid with the expiry instant itself still counted as valid.
IsUnexpired_Inclusive(nowMs, expires_at) ==
    nowMs # NaN /\ getTime(expires_at) # NaN /\ nowMs <= getTime(expires_at)

\* isValid of lines 73-75: the current time is before the expiry instant.
IsUnexpired(nowMs, expires_at) == NumLess(nowMs, getTime(expires_at))

\* A validateToken that calls a token invalid from one second before its
\* expiry.
validateToken_Margin(creds, locationId, fault, nowMs) ==
    IF locationId = ""
    THEN TokenValidationResult(FALSE, "", <<"Location ID is required">>)
    ELSE IF fault = "rpc"
    THEN TokenValidationResult(FALSE, "", <<"Failed to retrieve credentials: ">>)
    ELSE LET credentialsResult ==
                 getCredentials(creds, locationId, << >>, fault = "sql") IN
         IF credentialsResult.httpCode # 200 \/ ~HasData(credentialsResult)
         THEN TokenValidationResult(FALSE, "",
                  <<"No credentials found for location_id: ", locationId>>)
         ELSE LET expires_at == credentialsResult.data.expires_at IN
              IF expires_at = ""
              THEN TokenValidationResult(FALSE, "",
                       <<"No expiration date found in credentials">>)
              ELSE LET isValid == IsUnexpired(nowMs + TickMs, expires_at) IN
                   TokenValidationResult(isValid, expires_at,
                       IF isValid THEN <<"Token is valid">>
                       ELSE <<"Token expired at ", expires_at>>)

\* validateToken (lines 36-84); fault is how the getCredentials call goes.
validateToken(creds, locationId, fault, nowMs) ==
    IF locationId = ""
    THEN TokenValidationResult(FALSE, "", <<"Location ID is required">>)
    ELSE IF fault = "rpc"
    THEN TokenValidationResult(FALSE, "", <<"Failed to retrieve credentials: ">>)
    ELSE LET credentialsResult ==
                 getCredentials(creds, locationId, << >>, fault = "sql") IN
         IF credentialsResult.httpCode # 200 \/ ~HasData(credentialsResult)
         THEN TokenValidationResult(FALSE, "",
                  <<"No credentials found for location_id: ", locationId>>)
         ELSE LET expires_at == credentialsResult.data.expires_at IN
              IF expires_at = ""
              THEN TokenValidationResult(FALSE, "",
                       <<"No expiration date found in credentials">>)
              ELSE LET isValid == IsUnexpired(nowMs, expires_at) IN
                   TokenValidationResult(isValid, expires_at,
                       IF isValid THEN <<"Token is valid">>
                       ELSE <<"Token expired at ", expires_at>>)

\* A validateToken that goes on to refresh the token it found invalid.
AfterValidate_Refreshing(ps, val) ==
    IF ps.op = "validate" /\ (val.valid \/ ps.loc = "") THEN Done(ps, val)
    ELSE IF val.valid THEN [ ps EXCEPT !.pc = "e_get" ]
    ELSE IF ps.loc = ""
    THEN FinishRefresh([ ps EXCEPT !.refreshCalls = @ + 1 ],
                       RefreshFailure(<<"Location ID is required">>))
    ELSE [ ps EXCEPT !.pc = "r_get", !.refreshCalls = @ + 1 ]

\* validateToken has computed val: validateToken itself returns it (line
\* 77); ensureValidToken (lines 222-237) reads the credential again when the
\* token is valid and calls refreshToken otherwise.
AfterValidate(ps, val) ==
    IF ps.op = "validate" THEN Done(ps, val)
    ELSE IF val.valid THEN [ ps EXCEPT !.pc = "e_get" ]
    ELSE IF ps.loc = ""
    THEN FinishRefresh([ ps EXCEPT !.refreshCalls = @ + 1 ],
                       RefreshFailure(<<"Location ID is required">>))
    ELSE [ ps EXCEPT !.pc = "r_get", !.refreshCalls = @ + 1 ]

\* A refreshToken that hands the new token pair back without storing it.
AfterFetch_NotStored(ps, ex) ==
    IF ex.kind = "ok"
    THEN FinishRefresh(ps, RefreshSuccess(ex.tokenData.access_token,
                                          ex.tokenData.refresh_token, ex.expiresAt))
    ELSE IF ex.kind = "throw"
    THEN FinishRefresh(ps, Thrown(ex.message))
    ELSE FinishRefresh(ps, RefreshFailure(ex.message))

\* refreshToken after the exchange ex (lines 149-188): with a complete token
\* response it goes on to updateTokenPair, otherwise it returns the failure
\* or lets the error escape.
AfterFetch(ps, ex) ==
    IF ex.kind = "ok"
    THEN [ ps EXCEPT !.pc = "r_update", !.tokenData = ex.tokenData,
                     !.expiresAt = ex.expiresAt, !.storeWrites = @ + 1 ]
    ELSE IF ex.kind = "throw"
    THEN FinishRefresh(ps, Thrown(ex.message))
    ELSE FinishRefresh(ps, RefreshFailure(ex.message))

\* The grant taken from the wrong column of the credential.
GrantToken_AccessToken(data) == data.access_token

\* The refresh_token taken from the credential that was read (line 118).
GrantToken(data) == data.refresh_token

\* A refreshToken that sends whatever refresh_token the credential holds,
\* an empty one included.
refreshRead_SendEmpty(creds, locationId, fault) ==
    IF locationId = ""
    THEN [ ok |-> FALSE, refresh_token |-> "",
           message |-> <<"Location ID is required">> ]
    ELSE IF fault = "rpc"
    THEN [ ok |-> FALSE, refresh_token |-> "",
           message |-> <<"Failed to retrieve credentials: ">> ]
    ELSE LET credentialsResult ==
                 getCredentials(creds, locationId, << >>, fault = "sql") IN
         IF credentialsResult.httpCode # 200 \/ ~HasData(credentialsResult)
         THEN [ ok |-> FALSE, refresh_token |-> "",
                message |-> <<"No credentials found for location_id: ", locationId>> ]
         ELSE [ ok |-> TRUE,
                refresh_token |-> GrantToken(credentialsResult.data),
                message |-> << >> ]

\* refreshToken up to its fetch (lines 91-125): the refresh_token to send,
\* or the failure it returns.
refreshRead(creds, locationId, fault) ==
    IF locationId = ""
    THEN [ ok |-> FALSE, refresh_token |-> "",
           message |-> <<"Location ID is required">> ]
    ELSE IF fault = "rpc"
    THEN [ ok |-> FALSE, refresh_token |-> "",
           message |-> <<"Failed to retrieve credentials: ">> ]
    ELSE LET credentialsResult ==
                 getCredentials(creds, locationId, << >>, fault = "sql") IN
         IF credentialsResult.httpCode # 200 \/ ~HasData(credentialsResult)
         THEN [ ok |-> FALSE, refresh_token |-> "",
                message |-> <<"No credentials found for location_id: ", locationId>> ]
         ELSE IF GrantToken(credentialsResult.data) = ""
         THEN [ ok |-> FALSE, refresh_token |-> "",
                message |-> <<"No refresh token found in credentials">> ]
         ELSE [ ok |-> TRUE,
                refresh_token |-> GrantToken(credentialsResult.data),
                message |-> << >> ]

\* Ways the POST to the OAuth token endpoint can end.
OAuthOutcomes ==
    { [ kind |-> k, body |-> NoBody ] :
        k \in {"network", "status", "status_unreadable", "bad_json"} }
    \cup { [ kind |-> "ok", body |-> b ] : b \in OAuthBodies }

\* expiresAt with expires_in taken for an instant instead of a duration.
ExpiresAt_AsTimestamp(nowMs, expiresIn) == toISOString(expiresIn * 1000)

\* expiresAt of line 178.
ExpiresAt(nowMs, expiresIn) == toISOString(nowMs + expiresIn * 1000)

\* refreshToken from the end of its fetch to the updateTokenPair call
\* (lines 139-178): "ok" with the arguments of the call, "fail" with the
\* result returned, or "throw" for an error raised outside every try.
refreshExchange(outcome, nowMs) ==
    IF outcome.kind = "network"
    THEN [ kind |-> "fail", message |-> <<"Network error: ">>,
           tokenData |-> NoBody, expiresAt |-> "" ]
    ELSE IF outcome.kind = "status"
    THEN [ kind |-> "fail", message |-> <<"Failed to refresh token: ", "status">>,
           tokenData |-> NoBody, expiresAt |-> "" ]
    ELSE IF outcome.kind = "status_unreadable"
    THEN [ kind |-> "throw", message |-> <<"response.text() rejected">>,
           tokenData |-> NoBody, expiresAt |-> "" ]
    ELSE IF outcome.kind = "bad_json"
    THEN [ kind |-> "throw", message |-> <<"response.json() rejected">>,
           tokenData |-> NoBody, expiresAt |-> "" ]
    ELSE IF \/ outcome.body.access_token = ""
            \/ outcome.body.refresh_token = ""
            \/ outcome.body.expires_in = 0
    THEN [ kind |-> "fail",
           message |-> <<"Incomplete token response from OAuth provider">>,
           tokenData |-> NoBody, expiresAt |-> "" ]
    ELSE [ kind |-> "ok", message |-> << >>, tokenData |-> outcome.body,
           expiresAt |-> ExpiresAt(nowMs, outcome.body.expires_in) ]

\* refreshToken reporting success without looking at updateResult.success.
refreshStored_IgnoreUpdate(ps, fault, updateResult) ==
    IF fault = "rpc"
    THEN RefreshFailure(<<"Failed to store updated credentials: ">>)
    ELSE RefreshSuccess(ps.tokenData.access_token, ps.tokenData.refresh_token,
                        ps.expiresAt)

\* refreshToken after the updateTokenPair call (lines 181-212): the result.
refreshStored(ps, fault, updateResult) ==
    IF fault = "rpc"
    THEN RefreshFailure(<<"Failed to store updated credentials: ">>)
    ELSE IF ~updateResult.success
    THEN RefreshFailure(<<"Failed to update credentials: ">> \o updateResult.message)
    ELSE RefreshSuccess(ps.tokenData.access_token, ps.tokenData.refresh_token,
                        ps.expiresAt)

\* refreshToken storing the grant with INSERT OR REPLACE: a row that has gone
\* in the meantime is created again.
StoreGrant_Upsert(creds, ps, fault) ==
    IF fault # "none"
    THEN [ creds |-> creds, success |-> FALSE, message |-> << >> ]
    ELSE [ creds |->
             [ l \in DOMAIN creds \cup {ps.loc} |->
                 IF l = ps.loc
                 THEN [ location_id     |-> ps.loc,
                        company_id      |-> "",
                        access_token    |-> ps.tokenData.access_token,
                        refresh_token   |-> ps.tokenData.refresh_token,
                        expires_at      |-> ps.expiresAt,
                        receiver_emails |-> arrayToJson(<< >>) ]
                 ELSE creds[l] ],
           success |-> TRUE, message |-> << >> ]

\* The updateTokenPair call of refreshToken (lines 178-184): the table and
\* the result it leaves; a rejected call leaves no result.
StoreGrant(creds, ps, fault) ==
    IF fault = "rpc"
    THEN [ creds |-> creds, success |-> FALSE, message |-> << >> ]
    ELSE updateTokenPair(creds, ps.loc, ps.tokenData.access_token,
                         ps.tokenData.refresh_token, ps.expiresAt, fault = "sql")

(* ------------------------- environment answers ------------------------- *)

\* An inventory line as the API returns it; availableQuantity may be absent.
ItemKinds ==
    { [ product |-> "p1", availableQuantity |-> 0 ],
      [ product |-> "p1", availableQuantity |-> 2 ],
      [ product |-> "p2" ],
      [ product |-> "",   availableQuantity |-> 1 ] }

\* Item lists of at most n lines.
Inventories(n) == UNION { [1..k -> ItemKinds] : k \in 0..n }

\* Ways a GET on the inventory endpoint can end; total is total[0].total of
\* the answer and inventory its item list.
InventoryOutcomes(n) ==
    { [ kind |-> k, total |-> 0, inventory |-> << >> ] :
        k \in {"network", "status", "status_unreadable", "bad_json"} }
    \cup { [ kind |-> "ok", total |-> t, inventory |-> inv ] :
             t \in 0..MaxItems, inv \in Inventories(n) }

\* The answers one location gets during a batch run, one per await.
Scenario(validate, ensure, read, oauth, update, count, fetch) ==
    [ validate |-> validate, ensure |-> ensure, read |-> read, oauth |-> oauth,
      update |-> update, count |-> count, fetch |-> fetch ]

\* The token pairs a rotating OAuth endpoint issues, one per exchange it
\* accepts.
IssuedPairs ==
    << [access_token |-> "A2", refresh_token |-> "R2", expires_in |-> 1],
       [access_token |-> "A3", refresh_token |-> "R3", expires_in |-> 1],
       [access_token |-> "A4", refresh_token |-> "R4", expires_in |-> 1] >>

OAuthOk == [ kind |-> "ok", body |-> [ access_token |-> "A2",
                                       refresh_token |-> "R2", expires_in |-> 2 ] ]

CountOk(n) == [ kind |-> "ok", total |-> n, inventory |-> << >> ]

FetchOk(inv) == [ kind |-> "ok", total |-> Len(inv), inventory |-> inv ]

Failed(k) == [ kind |-> k, total |-> 0, inventory |-> << >> ]

InStock == [ product |-> "p1", availableQuantity |-> 2 ]

OutOfStock == [ product |-> "p1", availableQuantity |-> 0 ]

Unquantified == [ product |-> "p2" ]

Scenarios ==
    { Scenario("none", "none", "none", OAuthOk, "none", CountOk(1), FetchOk(<<InStock>>)),
      Scenario("none", "none", "none", OAuthOk, "none", CountOk(MaxItems),
               FetchOk(<<InStock, OutOfStock>>)),
      Scenario("none", "none", "none", OAuthOk, "none", CountOk(1),
               FetchOk(<<Unquantified>>)),
      Scenario("none", "none", "none", OAuthOk, "none", CountOk(0), FetchOk(<< >>)),
      Scenario("rpc",  "none", "none", OAuthOk, "none", CountOk(1), FetchOk(<<InStock>>)),
      Scenario("none", "rpc",  "sql",  OAuthOk, "none", CountOk(1), FetchOk(<<InStock>>)),
      Scenario("none", "none", "none", [ kind |-> "status", body |-> NoBody ],
               "none", CountOk(1), FetchOk(<<InStock>>)),
      Scenario("none", "none", "none", [ kind |-> "bad_json", body |-> NoBody ],
               "none", CountOk(1), FetchOk(<<InStock>>)),
      Scenario("none", "none", "none", OAuthOk, "rpc", CountOk(1), FetchOk(<<InStock>>)),
      Scenario("none", "none", "none", OAuthOk, "none", Failed("status"),
               FetchOk(<<InStock>>)),
      Scenario("none", "none", "none", OAuthOk, "none", CountOk(1), Failed("network")) }

(* -------------------------------- state -------------------------------- *)

VARIABLES
    credentials,   \* table credentials of the durable object: location_id -> row
    now,           \* Date.now(), in milliseconds
    proc,          \* the invocations: proc[p] is the state of invocation p
    reply,         \* what the last direct call on the store returned
    lastWrite,     \* per stored location, the token triple of the last write
    env,           \* per location, the answers a batch run gets
    calls          \* direct store calls made and invocations started so far

vars == << credentials, now, proc, reply, lastWrite, env, calls >>

NoReply ==
    [ op |-> "none", location_id |-> "", httpCode |-> 0, errorCode |-> "",
      success |-> FALSE, sqlFails |-> FALSE, request |-> << >>,
      message |-> << >>, data |-> << >> ]

TokenTriple(access_token, refresh_token, expires_at) ==
    [ access_token |-> access_token, refresh_token |-> refresh_token,
      expires_at |-> expires_at ]

TripleOf(row) == TokenTriple(row.access_token, row.refresh_token, row.expires_at)

\* Credentials a caller may insert: the row the OAuth callback creates, one
\* that is already expired, one with recipients and one with no tokens.
InsertInputs ==
    { [ location_id |-> l, company_id |-> "C1", access_token |-> "A1",
        refresh_token |-> "R1", expires_at |-> toISOString(TickMs),
        receiver_emails |-> << >> ] : l \in Locations }
    \cup
    { [ location_id |-> l, company_id |-> "C2", access_token |-> "A1",
        refresh_token |-> "R1", expires_at |-> toISOString(0),
        receiver_emails |-> <<"a@x.io">> ] : l \in Locations }
    \cup
    { [ location_id |-> l, company_id |-> "C1", access_token |-> "",
        refresh_token |-> "", expires_at |-> "",
        receiver_emails |-> << >> ] : l \in Locations }

\* After construction: an empty table, no invocation in flight.
Init ==
    /\ credentials = << >>
    /\ now = 0
    /\ proc = [ p \in Procs |-> IdleProc ]
    /\ reply = NoReply
    /\ lastWrite = << >>
    /\ calls = [ store |-> 0, invocations |-> 0 ]
    /\ env = [ l \in Locations |->
                 Scenario("none", "none", "none", OAuthOk, "none", CountOk(0),
                          FetchOk(<< >>)) ]

\* A write to the row of location l: invocations that read the row before
\* no longer hold the row as it is stored.
Touched(pr, l) ==
    [ q \in Procs |-> IF pr[q].loc = l THEN [ pr[q] EXCEPT !.sameRow = FALSE ]
                      ELSE pr[q] ]

(* ------------------------- direct store calls -------------------------- *)

InsertCredential(credential, sqlFails) ==
    LET r == insertCredential(credentials, credential, sqlFails) IN
    /\ calls' = [ calls EXCEPT !.store = @ + 1 ]
    /\ credentials' = r.creds
    /\ reply' = [ NoReply EXCEPT !.op = "insertCredential",
                                 !.location_id = credential.location_id,
                                 !.httpCode = r.httpCode, !.errorCode = r.errorCode,
                                 !.success = (r.status = "SUCCESS"),
                                 !.sqlFails = sqlFails,
                                 !.request = credential ]
    /\ lastWrite' = IF r.status = "SUCCESS"
                    THEN [ l \in DOMAIN r.creds |->
                             IF l = credential.location_id
                             THEN TokenTriple(credential.access_token,
                                              credential.refresh_token,
                                              credential.expires_at)
                             ELSE lastWrite[l] ]
                    ELSE lastWrite
    /\ proc' = IF r.status = "SUCCESS" THEN Touched(proc, credential.location_id)
               ELSE proc
    /\ UNCHANGED << now, env >>

DeleteCredential(location_id, sqlFails) ==
    LET r == deleteCredential(credentials, location_id, sqlFails) IN
    /\ calls' = [ calls EXCEPT !.store = @ + 1 ]
    /\ credentials' = r.creds
    /\ reply' = [ NoReply EXCEPT !.op = "deleteCredential", !.location_id = location_id,
                                 !.httpCode = r.httpCode, !.errorCode = r.errorCode,
                                 !.success = (r.status = "SUCCESS"),
                                 !.sqlFails = sqlFails ]
    /\ lastWrite' = [ l \in DOMAIN r.creds |-> lastWrite[l] ]
    /\ proc' = IF r.status = "SUCCESS" THEN Touched(proc, location_id) ELSE proc
    /\ UNCHANGED << now, env >>

UpdateReceiverEmails(location_id, receiverEmails, sqlFails) ==
    LET r == updateReceiverEmails(credentials, location_id, receiverEmails, sqlFails) IN
    /\ calls' = [ calls EXCEPT !.store = @ + 1 ]
    /\ credentials' = r.creds
    /\ reply' = [ NoReply EXCEPT !.op = "updateReceiverEmails", !.location_id = location_id,
                                 !.httpCode = r.httpCode, !.errorCode = r.errorCode,
                                 !.success = (r.status = "SUCCESS"),
                                 !.sqlFails = sqlFails,
                                 !.request = receiverEmails ]
    /\ UNCHANGED << now, proc, lastWrite, env >>

\* A caller other than refreshToken calls updateTokenPair.
\* The store writing the whole row back as it was when the object loaded it,
\* so that a recipient list stored since is lost.
UpdateTokenPair_WholeRow(locationId, triple, sqlFails) ==
    LET r == updateTokenPair(credentials, locationId, triple.access_token,
                             triple.refresh_token, triple.expires_at, sqlFails) IN
    /\ calls' = [ calls EXCEPT !.store = @ + 1 ]
    /\ credentials' = IF r.success
                      THEN [ r.creds EXCEPT ![locationId].receiver_emails =
                                                arrayToJson(<< >>) ]
                      ELSE r.creds
    /\ reply' = [ NoReply EXCEPT !.op = "updateTokenPair", !.location_id = locationId,
                                 !.success = r.success, !.sqlFails = sqlFails,
                                 !.message = r.message ]
    /\ lastWrite' = IF r.success THEN [ lastWrite EXCEPT ![locationId] = triple ]
                    ELSE lastWrite
    /\ proc' = IF r.success THEN Touched(proc, locationId) ELSE proc
    /\ UNCHANGED << now, env >>

UpdateTokenPair(locationId, triple, sqlFails) ==
    LET r == updateTokenPair(credentials, locationId, triple.access_token,
                             triple.refresh_token, triple.expires_at, sqlFails) IN
    /\ calls' = [ calls EXCEPT !.store = @ + 1 ]
    /\ credentials' = r.creds
    /\ reply' = [ NoReply EXCEPT !.op = "updateTokenPair", !.location_id = locationId,
                                 !.success = r.success, !.sqlFails = sqlFails,
                                 !.message = r.message ]
    /\ lastWrite' = IF r.success THEN [ lastWrite EXCEPT ![locationId] = triple ]
                    ELSE lastWrite
    /\ proc' = IF r.success THEN Touched(proc, locationId) ELSE proc
    /\ UNCHANGED << now, env >>

\* A caller reads one row (locationId given) or the whole table ("").
GetCredentials(locationId, order, sqlFails) ==
    LET r == getCredentials(credentials, locationId, order, sqlFails) IN
    /\ calls' = [ calls EXCEPT !.store = @ + 1 ]
    /\ reply' = [ NoReply EXCEPT !.op = "getCredentials", !.location_id = locationId,
                                 !.httpCode = r.httpCode,
                                 !.errorCode = IF "errorCode" \in DOMAIN r
                                               THEN r.errorCode ELSE "",
                                 !.success = (r.status = "SUCCESS"),
                                 !.sqlFails = sqlFails,
                                 !.data = IF ~HasData(r) THEN << >>
                                          ELSE IF locationId = "" THEN r.data
                                          ELSE << r.data >> ]
    /\ UNCHANGED << credentials, now, proc, lastWrite, env >>

\* Date.now() advances.
Tick ==
    /\ now < MaxTicks * TickMs
    /\ now' = now + TickMs
    /\ UNCHANGED << credentials, proc, reply, lastWrite, env, calls >>

(* ---------------------- invocations: entry points ---------------------- *)

\* Each invocation slot runs one call.
Startable(p) == proc[p].pc = "idle"

\* A caller invokes validateToken(locationId).
StartValidate(p, locationId) ==
    /\ Startable(p)
    /\ proc' = [ proc EXCEPT ![p] =
                   [ IdleProc EXCEPT !.op = "validate", !.pc = "v_get",
                                     !.loc = locationId ] ]
    /\ calls' = [ calls EXCEPT !.invocations = @ + 1 ]
    /\ UNCHANGED << credentials, now, reply, lastWrite, env >>

\* A caller invokes refreshToken(locationId).
StartRefresh(p, locationId) ==
    /\ Startable(p)
    /\ proc' = [ proc EXCEPT ![p] =
                   [ IdleProc EXCEPT !.op = "refresh", !.pc = "r_get",
                                     !.loc = locationId, !.refreshCalls = 1 ] ]
    /\ calls' = [ calls EXCEPT !.invocations = @ + 1 ]
    /\ UNCHANGED << credentials, now, reply, lastWrite, env >>

\* A caller invokes ensureValidToken(locationId).
StartEnsure(p, locationId) ==
    /\ Startable(p)
    /\ proc' = [ proc EXCEPT ![p] =
                   [ IdleProc EXCEPT !.op = "ensure", !.pc = "v_get",
                                     !.loc = locationId ] ]
    /\ calls' = [ calls EXCEPT !.invocations = @ + 1 ]
    /\ UNCHANGED << credentials, now, reply, lastWrite, env >>

\* A caller invokes queryInventorySummary(locationId) (lines 545-556): an
\* empty argument is refused at once, otherwise getInventory starts by asking
\* the token validator for a token.
StartQuery(p, locationId) ==
    /\ Startable(p)
    /\ proc' = [ proc EXCEPT ![p] =
                   IF locationId = ""
                   THEN Done([ IdleProc EXCEPT !.op = "query" ],
                             Thrown(<<"Missing required parameter: location_id">>))
                   ELSE [ IdleProc EXCEPT !.op = "query", !.pc = "v_get",
                                          !.loc = locationId ] ]
    /\ calls' = [ calls EXCEPT !.invocations = @ + 1 ]
    /\ UNCHANGED << credentials, now, reply, lastWrite, env >>

\* A trigger invokes processAllClients() (lines 39-52).
StartBatch(p) ==
    /\ Startable(p)
    /\ proc' = [ proc EXCEPT ![p] =
                   [ IdleProc EXCEPT !.op = "batch", !.pc = "b_list" ] ]
    /\ calls' = [ calls EXCEPT !.invocations = @ + 1 ]
    /\ UNCHANGED << credentials, now, reply, lastWrite, env >>

(* ------------------------ TokenValidator steps ------------------------- *)

\* The getCredentials call of validateToken completes.  For ensureValidToken
\* the step runs on to its next await (lines 222-237).
ValidateGet(p, fault) ==
    LET ps  == proc[p]
        val == validateToken(credentials, ps.loc, fault, now)
        \* invocations that found the same location invalid and are still at it
        racing == IF ps.op = "validate" \/ val.valid THEN {}
                  ELSE { q \in Procs \ {p} : /\ proc[q].loc = ps.loc
                                              /\ proc[q].validated = "invalid"
                                              /\ proc[q].pc # "done" }
        ps1 == [ ps EXCEPT !.validated = IF val.valid THEN "valid" ELSE "invalid",
                           !.validatedAt = now, !.fault = fault,
                           !.raced = @ \cup racing ]
        pr  == [ q \in Procs |-> IF q \in racing
                                 THEN [ proc[q] EXCEPT !.raced = @ \cup {p} ]
                                 ELSE proc[q] ]
    IN
    /\ ps.pc = "v_get"
    /\ proc' = [ pr EXCEPT ![p] = AfterValidate(ps1, val) ]
    /\ UNCHANGED << credentials, now, reply, lastWrite, env, calls >>

\* The second getCredentials call of ensureValidToken completes (lines 226-232).
EnsureGet(p, fault) ==
    LET ps == [ proc[p] EXCEPT !.fault = fault ]
        credentialsResult == getCredentials(credentials, ps.loc, << >>, fault = "sql")
    IN
    /\ ps.pc = "e_get"
    /\ proc' = [ proc EXCEPT ![p] =
                   IF fault = "rpc"
                   THEN FinishEnsure(ps, Thrown(<<"Failed to retrieve valid token: ">>))
                   ELSE IF ~HasData(credentialsResult)
                   THEN FinishEnsure(ps, Thrown(
                            <<"Cannot read properties of undefined (reading 'access_token')">>))
                   ELSE FinishEnsure(ps, Returned(credentialsResult.data.access_token)) ]
    /\ UNCHANGED << credentials, now, reply, lastWrite, env, calls >>

\* The getCredentials call of refreshToken completes; with a refresh_token
\* in hand the POST to the OAuth endpoint is sent (lines 99-148).
RefreshGet(p, fault) ==
    LET ps == [ proc[p] EXCEPT !.fault = fault ]
        rr == refreshRead(credentials, ps.loc, fault)
        \* invocations that read the row as it still is and have not written
        sameRead == { q \in Procs \ {p} : /\ proc[q].loc = ps.loc
                                           /\ proc[q].sameRow }
        pr == IF rr.ok
              THEN [ q \in Procs |-> IF q \in sameRead
                                     THEN [ proc[q] EXCEPT !.peers = @ \cup {p} ]
                                     ELSE proc[q] ]
              ELSE proc
    IN
    /\ ps.pc = "r_get"
    /\ proc' = [ pr EXCEPT ![p] =
                   IF rr.ok
                   THEN [ ps EXCEPT !.pc = "r_fetch",
                                    !.refresh_token = rr.refresh_token,
                                    !.oauthCalls = @ + 1, !.sameRow = TRUE,
                                    !.peers = sameRead ]
                   ELSE FinishRefresh(ps, RefreshFailure(rr.message)) ]
    /\ UNCHANGED << credentials, now, reply, lastWrite, env, calls >>

\* The OAuth endpoint answers (lines 149-188).
RefreshFetch(p, outcome) ==
    LET ps == proc[p]
        ex == refreshExchange(outcome, now)
    IN
    /\ ps.pc = "r_fetch"
    /\ proc' = [ proc EXCEPT ![p] = AfterFetch(ps, ex) ]
    /\ UNCHANGED << credentials, now, reply, lastWrite, env, calls >>

\* The OAuth endpoint answers as a rotating endpoint does: the refresh_token
\* sent is exchanged for the next token pair if it is the one the endpoint
\* last issued for the location and has not been exchanged before, and is
\* refused with an error status otherwise.
RotatingFetch(p) ==
    LET ps == proc[p]
        accepted == ps.refresh_token \notin env.spent
        outcome == IF accepted
                   THEN [ kind |-> "ok",
                          body |-> IssuedPairs[Cardinality(env.spent) + 1] ]
                   ELSE [ kind |-> "status", body |-> NoBody ]
    IN
    /\ ps.pc = "r_fetch"
    /\ Cardinality(env.spent) < Len(IssuedPairs)
    /\ proc' = [ proc EXCEPT ![p] = AfterFetch(ps, refreshExchange(outcome, now)) ]
    /\ env' = IF accepted
              THEN [ env EXCEPT !.spent = @ \cup {ps.refresh_token} ]
              ELSE env
    /\ UNCHANGED << credentials, now, reply, lastWrite, calls >>

\* The store executing the write of refreshToken as an insert-or-replace.
RefreshUpdate_Recreate(p, fault) ==
    LET ps == proc[p]
        ur == StoreGrant_Upsert(credentials, ps, fault)
        pr == IF ur.success THEN Touched(proc, ps.loc) ELSE proc
    IN
    /\ ps.pc = "r_update"
    /\ credentials' = ur.creds
    /\ lastWrite' = IF ur.success
                    THEN [ l \in DOMAIN ur.creds |->
                             IF l = ps.loc
                             THEN TokenTriple(ps.tokenData.access_token,
                                              ps.tokenData.refresh_token,
                                              ps.expiresAt)
                             ELSE lastWrite[l] ]
                    ELSE lastWrite
    /\ proc' = [ pr EXCEPT ![p] =
                   FinishRefresh([ pr[p] EXCEPT !.fault = fault ],
                                 refreshStored(ps, fault, ur)) ]
    /\ UNCHANGED << now, reply, env, calls >>

\* The updateTokenPair call of refreshToken is executed by the store and
\* refreshToken returns (lines 181-212).
RefreshUpdate(p, fault) ==
    LET ps == proc[p]
        ur == StoreGrant(credentials, ps, fault)
        pr == IF ur.success THEN Touched(proc, ps.loc) ELSE proc
    IN
    /\ ps.pc = "r_update"
    /\ credentials' = ur.creds
    /\ lastWrite' = IF ur.success
                    THEN [ lastWrite EXCEPT ![ps.loc] =
                             TokenTriple(ps.tokenData.access_token,
                                         ps.tokenData.refresh_token, ps.expiresAt) ]
                    ELSE lastWrite
    /\ proc' = [ pr EXCEPT ![p] =
                   FinishRefresh([ pr[p] EXCEPT !.fault = fault ],
                                 refreshStored(ps, fault, ur)) ]
    /\ UNCHANGED << now, reply, env, calls >>

(* --------------------- InventoryQueryService steps --------------------- *)

\* The count request (limit=0) of getInventory completes (lines 619-653).
InventoryCount(p, outcome) ==
    LET ps == [ proc[p] EXCEPT !.responses = Append(@, outcome.kind) ] IN
    /\ ps.pc = "i_count"
    /\ proc' = [ proc EXCEPT ![p] =
                   IF outcome.kind = "network"
                   THEN InventoryThrew(ps, <<"fetch failed">>)
                   ELSE IF outcome.kind = "status"
                   THEN InventoryThrew(ps, <<"API request failed: ", "status">>)
                   ELSE IF outcome.kind \in {"status_unreadable", "bad_json"}
                   THEN InventoryThrew(ps, <<"body rejected">>)
                   ELSE AfterCount(ps, outcome.total) ]
    /\ UNCHANGED << credentials, now, reply, lastWrite, env, calls >>

\* The full request (limit=total) of getInventory completes (lines 653-664).
InventoryFetch(p, outcome) ==
    LET ps == [ proc[p] EXCEPT !.responses = Append(@, outcome.kind) ] IN
    /\ ps.pc = "i_fetch"
    /\ Len(outcome.inventory) <= ps.totalItems
    /\ proc' = [ proc EXCEPT ![p] =
                   IF outcome.kind = "network"
                   THEN InventoryThrew(ps, <<"fetch failed">>)
                   ELSE IF outcome.kind = "status"
                   THEN InventoryThrew(ps, <<"API request failed: ", "status">>)
                   ELSE IF outcome.kind \in {"status_unreadable", "bad_json"}
                   THEN InventoryThrew(ps, <<"body rejected">>)
                   ELSE InventoryReturned(ps, [ inventory |-> outcome.inventory,
                                                total |-> outcome.total ]) ]
    /\ UNCHANGED << credentials, now, reply, lastWrite, env, calls >>

(* ------------------------ Batch Notifier steps ------------------------- *)

\* The getCredentials() call of processAllClients completes (lines 52-59);
\* a failure leaves through the outer catch (lines 130-134).
BatchList(p, order, fault) ==
    LET ps == proc[p]
        credentialsResponse == getCredentials(credentials, "", order, fault = "sql")
    IN
    /\ ps.pc = "b_list"
    /\ proc' = [ proc EXCEPT ![p] = ListCredentials(ps, credentialsResponse, fault) ]
    /\ UNCHANGED << credentials, now, reply, lastWrite, env, calls >>

\* A loop that counts a location as processed only once it has passed the
\* recipient check.
BatchIter_CountLate(p) ==
    LET ps == proc[p] IN
    /\ ps.pc = "b_iter"
    /\ proc' = [ proc EXCEPT ![p] =
                   IF ps.idx > Len(ps.credentials)
                   THEN Done(ps, [ NoResult EXCEPT !.kind = "return" ])
                   ELSE LET credential == ps.credentials[ps.idx]
                            counted == [ ps EXCEPT
                                !.loc = credential.location_id,
                                !.result.processedLocations =
                                    IF credential.receiverEmails = << >>
                                    THEN @ ELSE @ + 1,
                                !.validated = "none", !.validatedAt = 0,
                                !.oauthCalls = 0, !.refreshCalls = 0,
                                !.storeWrites = 0, !.inventoryCalls = 0,
                                !.limits = << >>, !.counted = -1,
                                !.items = << >>, !.inventorySummary = NoSummary,
                                !.responses = << >>,
                                !.fault = "none", !.sameRow = FALSE,
                                !.refreshResult = NoResult ]
                        IN ProcessLocation(counted, credential) ]
    /\ UNCHANGED << credentials, now, reply, lastWrite, env, calls >>

\* Head of the loop (lines 70-84): the run returns after the last element;
\* otherwise the next credential is counted and either skipped for having
\* no recipient or handed to queryInventorySummary.
BatchIter(p) ==
    LET ps == proc[p] IN
    /\ ps.pc = "b_iter"
    /\ proc' = [ proc EXCEPT ![p] =
                   IF ps.idx > Len(ps.credentials)
                   THEN Done(ps, [ NoResult EXCEPT !.kind = "return" ])
                   ELSE LET credential == ps.credentials[ps.idx]
                            counted == [ ps EXCEPT
                                !.loc = credential.location_id,
                                !.result.processedLocations = @ + 1,
                                !.validated = "none", !.validatedAt = 0,
                                !.oauthCalls = 0, !.refreshCalls = 0,
                                !.storeWrites = 0, !.inventoryCalls = 0,
                                !.limits = << >>, !.counted = -1,
                                !.items = << >>, !.inventorySummary = NoSummary,
                                !.responses = << >>,
                                !.fault = "none", !.sameRow = FALSE,
                                !.refreshResult = NoResult ]
                        IN ProcessLocation(counted, credential) ]
    /\ UNCHANGED << credentials, now, reply, lastWrite, env, calls >>

(* ----------------------------- Email Sender ---------------------------- *)

\* How resend.emails.send can end for one recipient: a message id, an error
\* object in the answer, an exception.
SendOutcomes == {"sent", "error", "throw"}

\* sendSingleEmail (lines 94-140): an error answer and an exception both
\* give a result with success false; nothing is thrown.
sendSingleEmail(receiverEmail, outcome) ==
    [ email |-> receiverEmail, success |-> (outcome = "sent") ]

\* The totals over a list of results (lines 160-169, 187-196).
BulkEmailResult(results) ==
    [ totalSent   |-> Cardinality({ i \in DOMAIN results : results[i].success }),
      totalFailed |-> Cardinality({ i \in DOMAIN results : ~results[i].success }),
      results     |-> results ]

\* The send for position i is handed to the email API.
Attempt(sends, i) ==
    [ sends EXCEPT ![i].state = "pending", ![i].attempts = @ + 1 ]

\* A sequential send that gives up at the first recipient that fails.
AfterSend_StopOnFailure(ps, i, result) ==
    LET settled == [ ps.sends EXCEPT ![i].state = "settled",
                                     ![i].success = result.success ]
        pushed  == Append(ps.bulk.results, result)
    IN
    IF ps.op = "bulk"
    THEN IF i < Len(ps.receiverEmails) /\ result.success
         THEN [ ps EXCEPT !.sends = Attempt(settled, i + 1),
                          !.bulk.results = pushed ]
         ELSE Done([ ps EXCEPT !.sends = settled, !.bulk = BulkEmailResult(pushed) ],
                   [ NoResult EXCEPT !.kind = "return" ])
    ELSE IF \A k \in DOMAIN settled : settled[k].state = "settled"
         THEN Done([ ps EXCEPT !.sends = settled,
                               !.bulk = BulkEmailResult(
                                   [ k \in DOMAIN settled |->
                                       [ email |-> settled[k].email,
                                         success |-> settled[k].success ] ]) ],
                   [ NoResult EXCEPT !.kind = "return" ])
         ELSE [ ps EXCEPT !.sends = settled ]

\* sendSingleEmail for position i has returned result.  sendBulkEmail (lines
\* 149-169) pushes it and goes on to the next recipient, returning after the
\* last; sendBulkEmailParallel (lines 186-196) returns once Promise.all has
\* every result, in the order of the recipients.
AfterSend(ps, i, result) ==
    LET settled == [ ps.sends EXCEPT ![i].state = "settled",
                                     ![i].success = result.success ]
        pushed  == Append(ps.bulk.results, result)
    IN
    IF ps.op = "bulk"
    THEN IF i < Len(ps.receiverEmails)
         THEN [ ps EXCEPT !.sends = Attempt(settled, i + 1),
                          !.bulk.results = pushed ]
         ELSE Done([ ps EXCEPT !.sends = settled, !.bulk = BulkEmailResult(pushed) ],
                   [ NoResult EXCEPT !.kind = "return" ])
    ELSE IF \A k \in DOMAIN settled : settled[k].state = "settled"
         THEN Done([ ps EXCEPT !.sends = settled,
                               !.bulk = BulkEmailResult(
                                   [ k \in DOMAIN settled |->
                                       [ email |-> settled[k].email,
                                         success |-> settled[k].success ] ]) ],
                   [ NoResult EXCEPT !.kind = "return" ])
         ELSE [ ps EXCEPT !.sends = settled ]

(* ------------------------------ OAuth Handler ------------------------- *)

\* Token responses of the OAuth endpoint to an authorization-code exchange;
\* "" and 0 stand for a field that is absent from the JSON.
CallbackBodies ==
    { [ access_token |-> "A2", refresh_token |-> "R2", expires_in |-> 2,
        locationId |-> l, companyId |-> "C1" ] : l \in Locations \cup {""} }
    \cup
    { [ access_token |-> "A3", refresh_token |-> "R3", expires_in |-> 1,
        locationId |-> l, companyId |-> "" ] : l \in Locations }
    \cup
    { [ access_token |-> "", refresh_token |-> "R2", expires_in |-> 2,
        locationId |-> "L1", companyId |-> "C1" ] }

\* Ways the authorization-code exchange can end.
CallbackOutcomes ==
    { [ kind |-> k, body |-> CHOOSE b \in CallbackBodies : b.access_token = "" ] :
        k \in {"network", "status"} }
    \cup { [ kind |-> "ok", body |-> b ] : b \in CallbackBodies }

\* OAuthCallbackService.exchangeCodeForTokens (oauth-initiate.ts lines
\* 124-165): the token data, or an error thrown.
exchangeCodeForTokens(outcome) ==
    IF outcome.kind # "ok"
    THEN [ ok |-> FALSE, tokenData |-> outcome.body ]
    ELSE IF \/ outcome.body.access_token = ""
            \/ outcome.body.refresh_token = ""
            \/ outcome.body.expires_in = 0
            \/ outcome.body.locationId = ""
    THEN [ ok |-> FALSE, tokenData |-> outcome.body ]
    ELSE [ ok |-> TRUE, tokenData |-> outcome.body ]

\* OAuthCallbackService.handleCallback (oauth-initiate.ts lines 77-117):
\* the status of the page answered, and the token data when there is one.
serviceHandleCallback(authCode, outcome) ==
    IF authCode = ""
    THEN [ status |-> 400, hasTokenData |-> FALSE, tokenData |-> outcome.body ]
    ELSE LET ex == exchangeCodeForTokens(outcome) IN
         IF ex.ok
         THEN [ status |-> 200, hasTokenData |-> TRUE, tokenData |-> ex.tokenData ]
         ELSE [ status |-> 400, hasTokenData |-> FALSE, tokenData |-> ex.tokenData ]

\* The credential handed to insertCredential (types.ts lines 199-206).
CallbackCredential(tokenData, nowMs) ==
    [ location_id     |-> tokenData.locationId,
      company_id      |-> tokenData.companyId,
      access_token    |-> tokenData.access_token,
      refresh_token   |-> tokenData.refresh_token,
      expires_at      |-> toISOString(nowMs + tokenData.expires_in * 1000),
      receiver_emails |-> << >> ]

\* storeCredentialsFromTokenData (types.ts lines 184-215): threw says that
\* the insertCredential call rejected or answered ERROR.
storeCredentialsFromTokenData(creds, tokenData, nowMs, fault) ==
    IF fault = "rpc"
    THEN [ creds |-> creds, threw |-> TRUE, errorCode |-> "" ]
    ELSE LET credentialResult ==
                 insertCredential(creds, CallbackCredential(tokenData, nowMs),
                                  fault = "sql") IN
         [ creds |-> credentialResult.creds,
           threw |-> credentialResult.status = "ERROR",
           errorCode |-> credentialResult.errorCode ]

\* A handler that answers with an error page when the credential could not
\* be stored.
handleCallback_FailOnStore(creds, authCode, outcome, nowMs, fault) ==
    LET callbackResult == serviceHandleCallback(authCode, outcome) IN
    IF callbackResult.status = 200 /\ callbackResult.hasTokenData
    THEN LET st == storeCredentialsFromTokenData(creds, callbackResult.tokenData,
                                                 nowMs, fault) IN
         [ creds |-> st.creds, status |-> IF st.threw THEN 500 ELSE 200,
           storeCalls |-> 1, stored |-> ~st.threw, errorCode |-> st.errorCode ]
    ELSE [ creds |-> creds, status |-> callbackResult.status,
           storeCalls |-> 0, stored |-> FALSE, errorCode |-> "" ]

\* OAuthHandler.handleCallback (types.ts lines 149-179): after a successful
\* exchange the credential is stored, and the page of the exchange is
\* answered whether or not storing worked.
handleCallback(creds, authCode, outcome, nowMs, fault) ==
    LET callbackResult == serviceHandleCallback(authCode, outcome) IN
    IF callbackResult.status = 200 /\ callbackResult.hasTokenData
    THEN LET st == storeCredentialsFromTokenData(creds, callbackResult.tokenData,
                                                 nowMs, fault) IN
         [ creds |-> st.creds, status |-> callbackResult.status,
           storeCalls |-> 1, stored |-> ~st.threw, errorCode |-> st.errorCode ]
    ELSE [ creds |-> creds, status |-> callbackResult.status,
           storeCalls |-> 0, stored |-> FALSE, errorCode |-> "" ]

\* GET /oauth/callback (index.ts lines 129-144).
OAuthCallback(authCode, outcome, fault) ==
    LET r == handleCallback(credentials, authCode, outcome, now, fault)
        credential == CallbackCredential(outcome.body, now)
    IN
    /\ calls' = [ calls EXCEPT !.invocations = @ + 1 ]
    /\ credentials' = r.creds
    /\ reply' = [ NoReply EXCEPT !.op = "oauthCallback",
                                 !.location_id = outcome.body.locationId,
                                 !.httpCode = r.status,
                                 !.errorCode = r.errorCode,
                                 !.success = (r.status = 200),
                                 !.sqlFails = (fault = "sql" /\ r.storeCalls = 1),
                                 !.request = credential,
                                 !.data = <<r.storeCalls, r.stored>> ]
    /\ lastWrite' = IF r.stored
                    THEN [ l \in DOMAIN r.creds |->
                             IF l = credential.location_id
                             THEN TripleOf(credential)
                             ELSE lastWrite[l] ]
                    ELSE lastWrite
    /\ proc' = IF r.stored THEN Touched(proc, credential.location_id) ELSE proc
    /\ UNCHANGED << now, env >>

(* ------------------------- Email Update Service ----------------------- *)

\* env.APP_PASSWORD, the password the service is constructed with.
APP_PASSWORD == "pw"

\* Addresses spelt out character by character, so that the pattern can be
\* applied to them.
Address(chars) == chars

\* emailRegex.test(email) for /^[^\s@]+@[^\s@]+\.[^\s@]+$/: one "@" with
\* something before it, no white space, and after the "@" a "." that has
\* something on both sides.
emailRegexTest(email) ==
    \E at \in DOMAIN email :
       /\ email[at] = "@"
       /\ at > 1
       /\ \A k \in DOMAIN email : k # at => email[k] \notin {"@", " "}
       /\ \E dot \in DOMAIN email :
              /\ email[dot] = "."
              /\ dot > at + 1
              /\ dot < Len(email)

\* The service without its password comparison.
serviceUpdateReceiverEmails_NoPassword(creds, request, fault) ==
    IF request.locationId = ""
    THEN [ creds |-> creds, status |-> "ERROR", errorCode |-> "MISSING_LOCATION_ID",
           storeCalls |-> << >> ]
    ELSE IF request.appPassword = ""
    THEN [ creds |-> creds, status |-> "ERROR", errorCode |-> "MISSING_PASSWORD",
           storeCalls |-> << >> ]
    ELSE IF request.emailList.kind # "array"
    THEN [ creds |-> creds, status |-> "ERROR", errorCode |-> "INVALID_EMAIL_LIST",
           storeCalls |-> << >> ]
    ELSE IF \E i \in DOMAIN request.emailList.items :
               ~emailRegexTest(request.emailList.items[i])
    THEN [ creds |-> creds, status |-> "ERROR", errorCode |-> "INVALID_EMAIL_FORMAT",
           storeCalls |-> << >> ]
    ELSE LET call   == [ location_id |-> request.locationId,
                         receiverEmails |-> request.emailList.items ]
             result == updateReceiverEmails(creds, request.locationId,
                                            request.emailList.items, fault = "sql")
         IN IF fault = "rpc"
            THEN [ creds |-> creds, status |-> "ERROR", errorCode |-> "INTERNAL_ERROR",
                   storeCalls |-> <<call>> ]
            ELSE IF result.status = "SUCCESS"
            THEN [ creds |-> result.creds, status |-> "SUCCESS", errorCode |-> "",
                   storeCalls |-> <<call>> ]
            ELSE [ creds |-> result.creds, status |-> "ERROR",
                   errorCode |-> IF result.errorCode # "" THEN result.errorCode
                                 ELSE "DATABASE_ERROR",
                   storeCalls |-> <<call>> ]

\* EmailUpdateService.updateReceiverEmails(request) (lines 38-120): the
\* table it leaves, its response and the calls it made on the store.
serviceUpdateReceiverEmails(creds, request, fault) ==
    IF request.locationId = ""
    THEN [ creds |-> creds, status |-> "ERROR", errorCode |-> "MISSING_LOCATION_ID",
           storeCalls |-> << >> ]
    ELSE IF request.appPassword = ""
    THEN [ creds |-> creds, status |-> "ERROR", errorCode |-> "MISSING_PASSWORD",
           storeCalls |-> << >> ]
    ELSE IF request.emailList.kind # "array"
    THEN [ creds |-> creds, status |-> "ERROR", errorCode |-> "INVALID_EMAIL_LIST",
           storeCalls |-> << >> ]
    ELSE IF request.appPassword # APP_PASSWORD
    THEN [ creds |-> creds, status |-> "ERROR", errorCode |-> "INVALID_PASSWORD",
           storeCalls |-> << >> ]
    ELSE IF \E i \in DOMAIN request.emailList.items :
               ~emailRegexTest(request.emailList.items[i])
    THEN [ creds |-> creds, status |-> "ERROR", errorCode |-> "INVALID_EMAIL_FORMAT",
           storeCalls |-> << >> ]
    ELSE LET call   == [ location_id |-> request.locationId,
                         receiverEmails |-> request.emailList.items ]
             result == updateReceiverEmails(creds, request.locationId,
                                            request.emailList.items, fault = "sql")
         IN IF fault = "rpc"
            THEN [ creds |-> creds, status |-> "ERROR", errorCode |-> "INTERNAL_ERROR",
                   storeCalls |-> <<call>> ]
            ELSE IF result.status = "SUCCESS"
            THEN [ creds |-> result.creds, status |-> "SUCCESS", errorCode |-> "",
                   storeCalls |-> <<call>> ]
            ELSE [ creds |-> result.creds, status |-> "ERROR",
                   errorCode |-> IF result.errorCode # "" THEN result.errorCode
                                 ELSE "DATABASE_ERROR",
                   storeCalls |-> <<call>> ]

\* Addresses the pattern accepts and addresses it refuses: no "." after the
\* "@", a blank, the empty string, nothing before the "@", two "@", nothing
\* after the ".", nothing between "@" and ".".
GoodAddresses ==
    { Address(<<"a", "@", "x", ".", "i">>), Address(<<"b", "@", "x", ".", "i">>) }

BadAddresses ==
    { Address(<<"a", "@", "x">>), Address(<<"a", " ", "@", "x", ".", "i">>),
      Address(<< >>), Address(<<"@", "x", ".", "i">>),
      Address(<<"a", "@", "@", "x", ".", "i">>), Address(<<"a", "@", "x", ".">>),
      Address(<<"a", "@", ".", "i">>) }

\* Values a request may carry as emailList: arrays of addresses, a single
\* string, nothing.
ArrayOf(items) == [ kind |-> "array", items |-> items ]

EmailListValues ==
    { ArrayOf(<< >>),
      ArrayOf(<< Address(<<"a", "@", "x", ".", "i">>) >>),
      ArrayOf(<< Address(<<"b", "@", "x", ".", "i">>),
                 Address(<<"a", "@", "x", ".", "i">>) >>),
      ArrayOf(<< Address(<<"a", "@", "x">>) >>),
      [ kind |-> "string", items |-> << >> ],
      [ kind |-> "undefined", items |-> << >> ] }

\* Requests: every combination of location, password and list value, and
\* with the right password every address the pattern refuses, alone and
\* behind one it accepts.
UpdateEmailRequests ==
    [ locationId : LocationArgs, appPassword : {"", APP_PASSWORD, "guess"},
      emailList : EmailListValues ]
    \cup { [ locationId |-> "L1", appPassword |-> APP_PASSWORD,
             emailList |-> ArrayOf(<<bad>>) ] : bad \in BadAddresses }
    \cup { [ locationId |-> "L1", appPassword |-> APP_PASSWORD,
             emailList |-> ArrayOf(<<good, bad>>) ] :
               good \in GoodAddresses, bad \in BadAddresses }

\* A caller posts an update of the recipients of a location.
EmailUpdate(request, fault) ==
    LET r == serviceUpdateReceiverEmails(credentials, request, fault) IN
    /\ calls' = [ calls EXCEPT !.invocations = @ + 1 ]
    /\ credentials' = r.creds
    /\ reply' = [ NoReply EXCEPT !.op = "emailUpdate",
                                 !.location_id = request.locationId,
                                 !.errorCode = r.errorCode,
                                 !.success = (r.status = "SUCCESS"),
                                 !.sqlFails = (fault = "sql" /\ r.storeCalls # << >>),
                                 !.request = request,
                                 !.data = r.storeCalls ]
    /\ UNCHANGED << now, proc, lastWrite, env >>

\* A caller invokes sendBulkEmail (parallel = FALSE) or
\* sendBulkEmailParallel (parallel = TRUE): the first send, or every send, is
\* handed to the email API; with no recipient the call returns at once.
StartBulk(p, parallel, receiverEmails) ==
    LET idle == [ i \in DOMAIN receiverEmails |->
                    [ email |-> receiverEmails[i], state |-> "idle",
                      attempts |-> 0, success |-> FALSE ] ]
        started == [ i \in DOMAIN receiverEmails |->
                       IF parallel \/ i = 1 THEN Attempt(idle, i)[i] ELSE idle[i] ]
        ps == [ IdleProc EXCEPT !.op = IF parallel THEN "bulkParallel" ELSE "bulk",
                                !.pc = "s_wait",
                                !.receiverEmails = receiverEmails,
                                !.sends = started ]
    IN
    /\ Startable(p)
    /\ proc' = [ proc EXCEPT ![p] =
                   IF receiverEmails = << >>
                   THEN Done([ ps EXCEPT !.bulk = BulkEmailResult(<< >>) ],
                             [ NoResult EXCEPT !.kind = "return" ])
                   ELSE ps ]
    /\ calls' = [ calls EXCEPT !.invocations = @ + 1 ]
    /\ UNCHANGED << credentials, now, reply, lastWrite, env >>

\* The pending send for position i settles with the given outcome.
SendSettles(p, i, outcome) ==
    LET ps == proc[p] IN
    /\ ps.pc = "s_wait"
    /\ i \in DOMAIN ps.sends
    /\ ps.sends[i].state = "pending"
    /\ proc' = [ proc EXCEPT ![p] =
                   AfterSend(ps, i, sendSingleEmail(ps.sends[i].email, outcome)) ]
    /\ UNCHANGED << credentials, now, reply, lastWrite, env, calls >>

\* A handler that also raises when the run recorded per-location errors.
scheduled_Strict(ret, result) ==
    IF ret.kind = "throw" \/ result.errors # << >>
    THEN [ raised |-> TRUE, error |-> ret.message, logged |-> << >> ]
    ELSE [ raised |-> FALSE, error |-> << >>, logged |-> result.errors ]

\* The scheduled handler once processAllClients has settled (index.ts lines
\* 682-697): an error thrown by the run is logged and thrown again;
\* otherwise the summary and any per-location errors are logged and the
\* handler returns.
scheduled(ret, result) ==
    IF ret.kind = "throw"
    THEN [ raised |-> TRUE, error |-> ret.message, logged |-> << >> ]
    ELSE [ raised |-> FALSE, error |-> << >>, logged |-> result.errors ]

\* The scheduled invocation that started run p finishes.
Scheduled(p) ==
    LET ps == proc[p]
        r  == scheduled(ps.ret, ps.result)
    IN
    /\ ps.op = "batch"
    /\ ps.pc = "done"
    /\ reply.op # "scheduled"
    /\ reply' = [ NoReply EXCEPT !.op = "scheduled", !.success = ~r.raised,
                                 !.message = r.error, !.data = r.logged ]
    /\ UNCHANGED << credentials, now, proc, lastWrite, env, calls >>

(* --------------------------- specifications ---------------------------- *)

\* Token triples a direct updateTokenPair call may carry ("" = not given).
UpdateInputs ==
    { TokenTriple("A2", "R2", toISOString(2 * TickMs)),
      TokenTriple("A3", "R3", toISOString(TickMs)),
      TokenTriple("", "R2", toISOString(TickMs)) }

\* The store on its own: any sequence of calls on the durable object.
NextStore ==
    /\ calls.store < MaxStoreCalls
    /\ \/ \E credential \in InsertInputs, sqlFails \in BOOLEAN :
              InsertCredential(credential, sqlFails)
       \/ \E l \in Locations, sqlFails \in BOOLEAN : DeleteCredential(l, sqlFails)
       \/ \E l \in Locations, emails \in EmailLists, sqlFails \in BOOLEAN :
              UpdateReceiverEmails(l, emails, sqlFails)
       \/ \E l \in LocationArgs, triple \in UpdateInputs, sqlFails \in BOOLEAN :
              UpdateTokenPair(l, triple, sqlFails)
       \/ \E l \in LocationArgs, order \in RowOrders(credentials),
             sqlFails \in BOOLEAN : GetCredentials(l, order, sqlFails)

SpecStore == Init /\ [][NextStore]_vars

\* Tables the token operations may find: L1 holds a credential that expires
\* at the first tick, an expired one, or one without tokens; L2 has no row.
TokenTables ==
    { t \in [ {"L1"} -> InsertInputs ] : t["L1"].location_id = "L1" }

InitToken ==
    /\ \E t \in TokenTables :
          credentials = [ l \in DOMAIN t |->
                            [ location_id     |-> l,
                              company_id      |-> t[l].company_id,
                              access_token    |-> t[l].access_token,
                              refresh_token   |-> t[l].refresh_token,
                              expires_at      |-> t[l].expires_at,
                              receiver_emails |-> arrayToJson(t[l].receiver_emails) ] ]
    /\ now = 0
    /\ proc = [ p \in Procs |-> IdleProc ]
    /\ reply = NoReply
    /\ lastWrite = [ l \in DOMAIN credentials |-> TripleOf(credentials[l]) ]
    /\ calls = [ store |-> 0, invocations |-> 0 ]
    /\ env = [ l \in Locations |->
                 Scenario("none", "none", "none", OAuthOk, "none", CountOk(0),
                          FetchOk(<< >>)) ]

\* Invocation slots are taken in order: slot p is used once slot p-1 has been.
InOrder(p) == \A q \in Procs : q < p => proc[q].pc # "idle"

\* The slot of a request that runs alone.
Runner == 1

\* What other requests do to the token-bearing rows meanwhile: the OAuth
\* callback stores a credential, an administrator removes one.
Interference ==
    /\ calls.store < MaxInterference
    /\ \/ \E credential \in { c \in InsertInputs : c.company_id = "C2" } :
              InsertCredential(credential, FALSE)
       \/ \E l \in DOMAIN credentials : DeleteCredential(l, FALSE)

\* One step of invocation p of the token validator.
TokenStep(p) ==
    \/ \E fault \in Faults : ValidateGet(p, fault)
    \/ \E fault \in Faults : EnsureGet(p, fault)
    \/ \E fault \in Faults : RefreshGet(p, fault)
    \/ \E outcome \in OAuthOutcomes : RefreshFetch(p, outcome)
    \/ \E fault \in Faults : RefreshUpdate(p, fault)

\* One request on the token validator, for any argument, with other requests
\* calling the store in between.
NextToken ==
    \/ Interference
    \/ Tick
    \/ \E l \in LocationArgs : StartValidate(Runner, l)
    \/ \E l \in LocationArgs : StartRefresh(Runner, l)
    \/ \E l \in LocationArgs : StartEnsure(Runner, l)
    \/ TokenStep(Runner)

SpecToken == InitToken /\ [][NextToken]_vars

\* Requests on the email update service, one after the other, on a table
\* that already holds credentials.
NextEmail ==
    /\ calls.invocations < MaxStoreCalls
    /\ \E request \in UpdateEmailRequests, fault \in Faults :
           EmailUpdate(request, fault)

SpecEmail == InitToken /\ [][NextEmail]_vars

\* The endpoint has exchanged no refresh_token yet; the stored one is the
\* one it last issued.
InitRotation ==
    /\ \E t \in TokenTables :
          credentials = [ l \in DOMAIN t |->
                            [ location_id     |-> l,
                              company_id      |-> t[l].company_id,
                              access_token    |-> t[l].access_token,
                              refresh_token   |-> t[l].refresh_token,
                              expires_at      |-> t[l].expires_at,
                              receiver_emails |-> arrayToJson(t[l].receiver_emails) ] ]
    /\ now = 0
    /\ proc = [ p \in Procs |-> IdleProc ]
    /\ reply = NoReply
    /\ lastWrite = [ l \in DOMAIN credentials |-> TripleOf(credentials[l]) ]
    /\ calls = [ store |-> 0, invocations |-> 0 ]
    /\ env = [ spent |-> {}, later |-> 0 ]

\* Two finished invocations for one location each sent the endpoint the
\* same refresh_token: they read the same stored value.
Raced(p, q) ==
    /\ p # q
    /\ proc[p].pc = "done" /\ proc[q].pc = "done"
    /\ proc[p].loc = proc[q].loc
    /\ proc[p].oauthCalls = 1 /\ proc[q].oauthCalls = 1
    /\ proc[p].refresh_token = proc[q].refresh_token

\* After two refreshes that raced have finished, a caller invokes
\* ensureValidToken for their location.
LaterEnsure(p) ==
    /\ env.later = 0
    /\ \E q \in Procs : Raced(p, q)
    /\ proc' = [ proc EXCEPT ![p] =
                   [ IdleProc EXCEPT !.op = "ensure", !.pc = "v_get",
                                     !.loc = proc[p].loc ] ]
    /\ env' = [ env EXCEPT !.later = p ]
    /\ calls' = [ calls EXCEPT !.invocations = @ + 1 ]
    /\ UNCHANGED << credentials, now, reply, lastWrite >>

\* One step of invocation p with a working store and a rotating endpoint.
RotationStep(p) ==
    \/ ValidateGet(p, "none")
    \/ EnsureGet(p, "none")
    \/ RefreshGet(p, "none")
    \/ RotatingFetch(p)
    \/ RefreshUpdate(p, "none")

\* Two requests for a stored location that refresh or use the token, in any
\* interleaving, against a rotating OAuth endpoint; then one more request.
NextRotation ==
    \/ Tick
    \/ \E p \in Procs, l \in DOMAIN credentials : InOrder(p) /\ StartRefresh(p, l)
    \/ \E p \in Procs, l \in DOMAIN credentials : InOrder(p) /\ StartEnsure(p, l)
    \/ \E p \in Procs : RotationStep(p)
    \/ \E p \in Procs : LaterEnsure(p)

SpecRotation == InitRotation /\ [][NextRotation]_vars

\* OAuth callbacks arriving one after another on a table that starts empty,
\* with or without an authorization code.
NextCallback ==
    \/ Tick
    \/ /\ calls.invocations < MaxStoreCalls
       /\ \E authCode \in {"", "code"}, outcome \in CallbackOutcomes,
             fault \in Faults : OAuthCallback(authCode, outcome, fault)

SpecCallback == Init /\ [][NextCallback]_vars

\* Recipient lists of a bulk send; an address may occur twice.
ReceiverLists ==
    UNION { [ 1..k -> {"a@x.io", "b@x.io"} ] : k \in 0..MaxItems }

\* The email API answers the send for each position as env prescribes.
InitSend ==
    /\ credentials = << >>
    /\ now = 0
    /\ proc = [ p \in Procs |-> IdleProc ]
    /\ reply = NoReply
    /\ lastWrite = << >>
    /\ calls = [ store |-> 0, invocations |-> 0 ]
    /\ env \in [ 1..MaxItems -> SendOutcomes ]

\* A bulk send with one strategy and then the same request with the other
\* strategy, their sends settling in any order.
NextSend ==
    \/ \E parallel \in BOOLEAN, receiverEmails \in ReceiverLists :
           StartBulk(Runner, parallel, receiverEmails)
    \/ \E p \in Procs \ {Runner} :
           /\ proc[Runner].pc # "idle"
           /\ StartBulk(p, proc[Runner].op = "bulk", proc[Runner].receiverEmails)
    \/ \E p \in Procs, i \in 1..MaxItems : SendSettles(p, i, env[i])

SpecSend == InitSend /\ [][NextSend]_vars

\* Credentials that lack one of the three token columns while the others are
\* in place: no access token, no refresh token, no expiry.
IncompleteInputs ==
    { [ location_id |-> l, company_id |-> "C3", access_token |-> "",
        refresh_token |-> "R1", expires_at |-> toISOString(TickMs),
        receiver_emails |-> << >> ] : l \in Locations }
    \cup
    { [ location_id |-> l, company_id |-> "C3", access_token |-> "A1",
        refresh_token |-> "", expires_at |-> toISOString(TickMs),
        receiver_emails |-> << >> ] : l \in Locations }
    \cup
    { [ location_id |-> l, company_id |-> "C3", access_token |-> "A1",
        refresh_token |-> "R1", expires_at |-> "",
        receiver_emails |-> << >> ] : l \in Locations }

\* A table holding any credential for L1, complete or not.
InitQuery ==
    /\ \E t \in InsertInputs \cup IncompleteInputs :
          /\ t.location_id = "L1"
          /\ credentials = [ l \in {"L1"} |->
                               [ location_id     |-> l,
                                 company_id      |-> t.company_id,
                                 access_token    |-> t.access_token,
                                 refresh_token   |-> t.refresh_token,
                                 expires_at      |-> t.expires_at,
                                 receiver_emails |-> arrayToJson(t.receiver_emails) ] ]
    /\ now = 0
    /\ proc = [ p \in Procs |-> IdleProc ]
    /\ reply = NoReply
    /\ lastWrite = [ l \in DOMAIN credentials |-> TripleOf(credentials[l]) ]
    /\ calls = [ store |-> 0, invocations |-> 0 ]
    /\ env = [ l \in Locations |->
                 Scenario("none", "none", "none", OAuthOk, "none", CountOk(0),
                          FetchOk(<< >>)) ]

\* One queryInventorySummary request, for any argument, with the store, the
\* OAuth endpoint and the inventory API answering in any way.
NextQuery ==
    \/ Tick
    \/ \E l \in LocationArgs : StartQuery(Runner, l)
    \/ TokenStep(Runner)
    \/ \E outcome \in InventoryOutcomes(0) : InventoryCount(Runner, outcome)
    \/ \E outcome \in InventoryOutcomes(MaxItems) : InventoryFetch(Runner, outcome)

SpecQuery == InitQuery /\ [][NextQuery]_vars

\* Answers of the inventory API that take a request down each of its paths.
CountAnswers == { Failed("network"), CountOk(0), CountOk(1) }

FetchAnswers == { Failed("status"), FetchOk(<<InStock>>), FetchOk(<<OutOfStock>>) }

\* One request of any kind on the token validator, the inventory query
\* service or the batch notifier, every call answering in any way, with other
\* requests calling the store in between.
NextAny ==
    \/ Interference
    \/ Tick
    \/ \E l \in LocationArgs : StartValidate(Runner, l)
    \/ \E l \in LocationArgs : StartRefresh(Runner, l)
    \/ \E l \in LocationArgs : StartEnsure(Runner, l)
    \/ \E l \in LocationArgs : StartQuery(Runner, l)
    \/ StartBatch(Runner)
    \/ \E order \in RowOrders(credentials), fault \in Faults :
           BatchList(Runner, order, fault)
    \/ BatchIter(Runner)
    \/ TokenStep(Runner)
    \/ \E outcome \in CountAnswers : InventoryCount(Runner, outcome)
    \/ \E outcome \in FetchAnswers : InventoryFetch(Runner, outcome)

SpecAny == InitToken /\ [][NextAny]_vars

\* Requests for stored locations that refresh or use the token, in any
\* interleaving, with other requests calling the store in between.
Next ==
    \/ Interference
    \/ Tick
    \/ \E p \in Procs, l \in DOMAIN credentials : InOrder(p) /\ StartRefresh(p, l)
    \/ \E p \in Procs, l \in DOMAIN credentials : InOrder(p) /\ StartEnsure(p, l)
    \/ \E p \in Procs : TokenStep(p)

Spec == InitToken /\ [][Next]_vars

\* Rows a location may hold when a batch run starts.
BatchRows(l) ==
    { [ location_id |-> l, company_id |-> "C1", access_token |-> "A1",
        refresh_token |-> "R1", expires_at |-> toISOString(TickMs),
        receiver_emails |-> arrayToJson(<< >>) ],
      [ location_id |-> l, company_id |-> "C1", access_token |-> "A1",
        refresh_token |-> "R1", expires_at |-> toISOString(TickMs),
        receiver_emails |-> arrayToJson(<<"a@x.io">>) ],
      [ location_id |-> l, company_id |-> "C1", access_token |-> "A1",
        refresh_token |-> "R1", expires_at |-> toISOString(0),
        receiver_emails |-> arrayToJson(<<"a@x.io", "b@x.io">>) ] }

BatchTables ==
    UNION { { t \in [D -> UNION { BatchRows(l) : l \in D }] :
                \A l \in D : t[l].location_id = l } : D \in SUBSET Locations }

\* One batch run over a table of credentials; the store, the OAuth endpoint
\* and the inventory API answer each location as env prescribes.
InitBatch ==
    /\ credentials \in BatchTables
    /\ now = 0
    /\ proc = [ p \in Procs |-> IdleProc ]
    /\ reply = NoReply
    /\ lastWrite = [ l \in DOMAIN credentials |-> TripleOf(credentials[l]) ]
    /\ calls = [ store |-> 0, invocations |-> 0 ]
    /\ env \in [ Locations -> Scenarios ]
    /\ \A l \in Locations :
          (l \notin DOMAIN credentials
             \/ jsonToArray(credentials[l].receiver_emails) = << >>)
          => env[l] = Scenario("none", "none", "none", OAuthOk, "none",
                               CountOk(1), FetchOk(<<InStock>>))

\* The answers prescribed for the location the run is at.
Answers == env[proc[Runner].loc]

\* The run is inside the loop body of some location.
AtLocation == proc[Runner].loc \in DOMAIN env /\ proc[Runner].pc # "done"

NextBatch ==
    \/ proc[Runner].pc = "idle" /\ StartBatch(Runner)
    \/ \E order \in RowOrders(credentials), fault \in Faults :
           BatchList(Runner, order, fault)
    \/ BatchIter(Runner)
    \/ AtLocation /\ ValidateGet(Runner, Answers.validate)
    \/ AtLocation /\ EnsureGet(Runner, Answers.ensure)
    \/ AtLocation /\ RefreshGet(Runner, Answers.read)
    \/ AtLocation /\ RefreshFetch(Runner, Answers.oauth)
    \/ AtLocation /\ RefreshUpdate(Runner, Answers.update)
    \/ AtLocation /\ InventoryCount(Runner, Answers.count)
    \/ AtLocation /\ InventoryFetch(Runner, Answers.fetch)
    \/ Scheduled(Runner)
    \/ Tick

SpecBatch == InitBatch /\ [][NextBatch]_vars

\* A step of the run: a call it awaits returns or fails, or the loop goes on.
BatchStep ==
    \/ \E order \in RowOrders(credentials), fault \in Faults :
           BatchList(Runner, order, fault)
    \/ BatchIter(Runner)
    \/ AtLocation /\ ValidateGet(Runner, Answers.validate)
    \/ AtLocation /\ EnsureGet(Runner, Answers.ensure)
    \/ AtLocation /\ RefreshGet(Runner, Answers.read)
    \/ AtLocation /\ RefreshFetch(Runner, Answers.oauth)
    \/ AtLocation /\ RefreshUpdate(Runner, Answers.update)
    \/ AtLocation /\ InventoryCount(Runner, Answers.count)
    \/ AtLocation /\ InventoryFetch(Runner, Answers.fetch)

\* The batch run when every call it awaits eventually returns or fails.
SpecBatchLive == SpecBatch /\ WF_vars(BatchStep)

(* ------------------------------ properties ----------------------------- *)

\* part occurs at the end of message: the message carries it.
Carries(message, part) ==
    /\ Len(part) <= Len(message)
    /\ SubSeq(message, Len(message) - Len(part) + 1, Len(message)) = part

\* Invocation p takes the step that leaves the await named pc.
Leaves(p, pc) == proc[p].pc = pc /\ proc'[p].pc # pc

\* The store answers a read of location l with a row.
Stored(l) == l \in DOMAIN credentials

(* ---- C2 ---- *)

\* C2: ensureValidToken, when validateToken reports the token valid, calls
\* neither the OAuth endpoint nor refreshToken, writes nothing to the store
\* and returns the access token stored for the location at its second read
\* (it throws when that read is not answered with the row); when the token is
\* reported invalid it calls refreshToken exactly once and returns the new
\* access token if the refresh succeeded, otherwise it throws an error whose
\* message carries the message of the refresh failure.
C2_EnsureValidToken ==
    [][ \A p \in Procs :
          (proc[p].op = "ensure" /\ proc[p].pc # "done" /\ proc'[p].pc = "done") =>
             LET ps == proc'[p] IN
             IF ps.validated = "valid"
             THEN /\ Leaves(p, "e_get")
                  /\ ps.oauthCalls = 0 /\ ps.refreshCalls = 0 /\ ps.storeWrites = 0
                  /\ credentials' = credentials
                  /\ IF ps.fault = "none" /\ Stored(ps.loc)
                     THEN ps.ret = Returned(credentials[ps.loc].access_token)
                     ELSE ps.ret.kind = "throw"
             ELSE /\ ps.refreshCalls = 1
                  /\ ps.oauthCalls <= 1
                  /\ IF ps.refreshResult.kind = "return" /\ ps.refreshResult.success
                     THEN ps.ret = Returned(ps.refreshResult.value)
                     ELSE /\ ps.ret.kind = "throw"
                          /\ Carries(ps.ret.message, ps.refreshResult.message)
      ]_vars

\* One invocation returned the stored token without refreshing while another
\* found the token invalid, refreshed once, failed and threw.
C2_Witness ==
    \E p, q \in Procs :
        /\ proc[p].op = "ensure" /\ proc[p].pc = "done"
        /\ proc[p].validated = "valid" /\ proc[p].ret.kind = "return"
        /\ proc[p].ret.value = "A1" /\ proc[p].oauthCalls = 0
        /\ proc[q].op = "ensure" /\ proc[q].pc = "done"
        /\ proc[q].validated = "invalid" /\ proc[q].refreshCalls = 1
        /\ proc[q].oauthCalls = 1
        /\ proc[q].ret.kind = "throw" /\ ~proc[q].refreshResult.success

(* ---- C3 ---- *)

\* C3: after a successful refreshToken the stored row holds the access token
\* and the refresh token the OAuth endpoint returned and an expires_at that is
\* the time of the refresh plus expires_in seconds, and the result carries
\* the same three values.
C3_RefreshStoresGrant ==
    [][ \A p \in Procs :
          /\ (Leaves(p, "r_fetch") /\ proc'[p].pc = "r_update") =>
                getTime(proc'[p].expiresAt)
                    = now + proc'[p].tokenData.expires_in * 1000
          /\ (Leaves(p, "r_update") /\ proc'[p].refreshResult.success) =>
                LET ps == proc[p]
                    res == proc'[p].refreshResult
                    row == credentials'[ps.loc]
                IN
                /\ ps.loc \in DOMAIN credentials'
                /\ row.access_token = ps.tokenData.access_token
                /\ row.refresh_token = ps.tokenData.refresh_token
                /\ row.expires_at = ps.expiresAt
                /\ res.value = row.access_token
                /\ res.newRefreshToken = row.refresh_token
                /\ res.expiresAt = row.expires_at
      ]_vars

\* A refresh made at the first tick with expires_in = 2 succeeded and the
\* row expires at second 3.
C3_Witness ==
    \E p \in Procs :
        /\ proc[p].pc = "done" /\ proc[p].refreshResult.success
        /\ proc[p].refreshResult.expiresAt = "1970-01-01T00:00:03.000Z"
        /\ Stored(proc[p].loc)
        /\ credentials[proc[p].loc].expires_at = "1970-01-01T00:00:03.000Z"
        /\ credentials[proc[p].loc].access_token = "A2"

(* ---- C4 ---- *)

\* C4: validateToken, whenever its read of the store is answered, returns
\* valid=true exactly when a credential exists for the location, its
\* expires_at is present and the current time is strictly before expires_at;
\* at a time equal to or after expires_at it returns valid=false with a
\* message containing the expiry, and with no credential or no expires_at it
\* returns valid=false.
C4_ValidateToken ==
    [][ \A p \in Procs :
          (Leaves(p, "v_get") /\ proc[p].op = "validate") =>
             LET l   == proc[p].loc
                 res == proc'[p].ret
                 expires_at == credentials[l].expires_at
             IN
             /\ res.kind = "return"
             /\ proc'[p].fault = "none" =>
                  /\ res.valid <=> ( /\ Stored(l) /\ expires_at # ""
                                     /\ now < getTime(expires_at) )
                  /\ (Stored(l) /\ expires_at # "" /\ now >= getTime(expires_at)) =>
                        /\ ~res.valid
                        /\ Carries(res.message, <<expires_at>>)
                  /\ (~Stored(l) \/ expires_at = "") => ~res.valid
             /\ proc'[p].fault # "none" => ~res.valid
      ]_vars

\* validateToken was called at the very instant of expiry and answered
\* valid=false with the expiry in its message.
C4_Witness ==
    \E p \in Procs :
        /\ proc[p].op = "validate" /\ proc[p].pc = "done"
        /\ ~proc[p].ret.valid
        /\ proc[p].ret.expiresAt # ""
        /\ now = getTime(proc[p].ret.expiresAt)
        /\ now > 0
        /\ Carries(proc[p].ret.message, <<proc[p].ret.expiresAt>>)

(* ---- C5 ---- *)

\* C5: refreshToken never throws: whatever fails (missing location id, store
\* read error, no credential, empty refresh_token, network exception, non-2xx
\* answer, unreadable or unparseable body, incomplete body, store write
\* failure) it returns a result with success=false.
C5_RefreshNeverThrows ==
    \A p \in Procs :
        (proc[p].op = "refresh" /\ proc[p].pc = "done") =>
            proc[p].ret.kind = "return"

(* ---- C6 ---- *)

\* C6: when the OAuth exchange succeeded but updateTokenPair is unsuccessful
\* or throws, refreshToken returns success=false, ensureValidToken throws and
\* the new access token is not handed to the caller.
C6_UnstoredTokenWithheld ==
    [][ \A p \in Procs :
          ( /\ Leaves(p, "r_update")
            /\ \/ proc'[p].fault # "none"
               \/ ~Stored(proc[p].loc) ) =>
             LET ps == proc'[p] IN
             /\ ps.pc = "done"
             /\ credentials' = credentials
             /\ ps.refreshResult.kind = "return"
             /\ ~ps.refreshResult.success
             /\ ps.refreshResult.value = ""
             /\ ps.op = "ensure" => /\ ps.ret.kind = "throw"
                                    /\ ps.ret.value = ""
             /\ ps.op = "refresh" => ps.ret = ps.refreshResult
      ]_vars

\* An ensureValidToken invocation got tokens from the OAuth endpoint, its
\* store write was refused, and it threw.
C6_Witness ==
    \E p \in Procs :
        /\ proc[p].op = "ensure" /\ proc[p].pc = "done"
        /\ proc[p].oauthCalls = 1 /\ proc[p].storeWrites = 1
        /\ ~proc[p].refreshResult.success
        /\ proc[p].ret.kind = "throw"
        /\ Carries(proc[p].ret.message, proc[p].refreshResult.message)
        /\ \E m \in {"Failed to update credentials: ",
                     "Failed to store updated credentials: "} :
              Head(proc[p].refreshResult.message) = m

(* ---- C7 ---- *)

\* C7 as stated: two ensureValidToken invocations for one location that both
\* found the token invalid before either completed its refresh, and both
\* issued an OAuth exchange, sent the same refresh_token.
C7_RacersShareGrant ==
    \A p, q \in Procs :
        ( /\ q \in proc[p].raced
          /\ proc[p].oauthCalls = 1 /\ proc[q].oauthCalls = 1 ) =>
            proc[p].refresh_token = proc[q].refresh_token

\* C7 amended: nothing keeps two refreshes of one location apart; two
\* invocations that both read the credential before any write to its row
\* have both issued an OAuth exchange with the same refresh_token, and as
\* long as the row is as an invocation read it, the refresh_token it sent is
\* the stored one.
C7_SameReadSameGrant ==
    \A p \in Procs :
        /\ \A q \in proc[p].peers :
              /\ proc[q].loc = proc[p].loc
              /\ proc[p].oauthCalls = 1 /\ proc[q].oauthCalls = 1
              /\ proc[p].refresh_token = proc[q].refresh_token
        /\ proc[p].sameRow =>
              /\ Stored(proc[p].loc)
              /\ proc[p].refresh_token = credentials[proc[p].loc].refresh_token

\* Two invocations that found the token invalid are both waiting for the
\* OAuth endpoint, each having sent the stored refresh_token.
C7_Witness ==
    \E p, q \in Procs :
        /\ p # q /\ q \in proc[p].peers /\ q \in proc[p].raced
        /\ proc[p].op = "ensure" /\ proc[q].op = "ensure"
        /\ proc[p].pc = "r_fetch" /\ proc[q].pc = "r_fetch"
        /\ proc[p].refresh_token = "R1" /\ proc[q].refresh_token = "R1"
        /\ credentials[proc[p].loc].refresh_token = "R1"

(* ---- C8 ---- *)

\* C8: every read of the store observes a token triple written by a single
\* store operation - no mix of two writes - and once two updateTokenPair
\* writes have completed the row holds the triple of the one executed last.
C8_WholeTriple ==
    [][ /\ \A l \in DOMAIN credentials' :
              /\ l \in DOMAIN lastWrite'
              /\ TripleOf(credentials'[l]) = lastWrite'[l]
        /\ \A p \in Procs :
              /\ (Leaves(p, "r_get") /\ proc'[p].pc = "r_fetch") =>
                    proc'[p].refresh_token = lastWrite[proc[p].loc].refresh_token
              /\ (Leaves(p, "e_get") /\ proc'[p].ret.kind = "return") =>
                    proc'[p].ret.value = lastWrite[proc[p].loc].access_token
              /\ (Leaves(p, "r_update") /\ proc'[p].refreshResult.success) =>
                    lastWrite'[proc[p].loc] =
                        TokenTriple(proc[p].tokenData.access_token,
                                    proc[p].tokenData.refresh_token,
                                    proc[p].expiresAt)
      ]_vars

\* Two refreshes of one location have stored different triples and the row
\* holds one of them whole.
C8_Witness ==
    \E p, q \in Procs :
        /\ proc[p].pc = "done" /\ proc[q].pc = "done"
        /\ proc[p].loc = proc[q].loc
        /\ proc[p].refreshResult.success /\ proc[q].refreshResult.success
        /\ proc[p].refreshResult.value = "A2" /\ proc[q].refreshResult.value = "A3"
        /\ Stored(proc[q].loc)
        /\ TripleOf(credentials[proc[q].loc]) =
               TokenTriple("A3", "R3", proc[q].refreshResult.expiresAt)

(* ---- C9 ---- *)

\* The step is a direct call of the named store operation.
StoreCall(op) == calls'.store = calls.store + 1 /\ reply'.op = op

\* C9: insertCredential does not overwrite: called for a location_id that
\* already has a row it leaves the table as it is and reports an error, which
\* is DUPLICATE_LOCATION (409) whenever its SQL statements execute.
C9_InsertKeepsExisting ==
    [][ ( /\ StoreCall("insertCredential")
          /\ Stored(reply'.location_id) ) =>
            /\ credentials' = credentials
            /\ ~reply'.success
            /\ ~reply'.sqlFails => /\ reply'.errorCode = "DUPLICATE_LOCATION"
                                   /\ reply'.httpCode = 409
      ]_vars

\* An insert offering other tokens, company and recipients for a stored
\* location was refused and the stored row is not the offered one.
C9_Witness ==
    /\ reply.op = "insertCredential"
    /\ reply.errorCode = "DUPLICATE_LOCATION"
    /\ Stored(reply.location_id)
    /\ credentials[reply.location_id].company_id # reply.request.company_id
    /\ credentials[reply.location_id].expires_at # reply.request.expires_at
    /\ credentials[reply.location_id].receiver_emails
           # arrayToJson(reply.request.receiver_emails)

(* ---- C10 ---- *)

\* C10: updateTokenPair on an existing location changes only access_token,
\* refresh_token and expires_at of that row: its company_id and
\* receiver_emails and every other row are unchanged.
C10_UpdateTouchesTokensOnly ==
    [][ StoreCall("updateTokenPair") =>
          /\ DOMAIN credentials' = DOMAIN credentials
          /\ \A l \in DOMAIN credentials :
                /\ credentials'[l].location_id = credentials[l].location_id
                /\ credentials'[l].company_id = credentials[l].company_id
                /\ credentials'[l].receiver_emails = credentials[l].receiver_emails
                /\ l # reply'.location_id => credentials'[l] = credentials[l]
      ]_vars

\* A row with a company and recipients got new tokens from updateTokenPair
\* while another row was in the table.
C10_Witness ==
    /\ reply.op = "updateTokenPair" /\ reply.success
    /\ Cardinality(DOMAIN credentials) = 2
    /\ credentials[reply.location_id].access_token \in {"A2", "A3"}
    /\ credentials[reply.location_id].company_id = "C2"
    /\ jsonToArray(credentials[reply.location_id].receiver_emails) = <<"a@x.io">>

(* ---- C1 ---- *)

\* What the loop body does with one credential when it is the only one in
\* the table: the operations of the loop body applied in turn to the row
\* alone, the answers the location gets and the time of its token check.
SoloOutcome(credential, answers, at) ==
    LET l     == credential.location_id
        alone == (l :> credential)
        val   == validateToken(alone, l, answers.validate, at)
        rr    == refreshRead(alone, l, answers.read)
        ex    == refreshExchange(answers.oauth, at)
        ur    == updateTokenPair(alone, l, ex.tokenData.access_token,
                                 ex.tokenData.refresh_token, ex.expiresAt,
                                 answers.update = "sql")
        token == IF val.valid THEN answers.ensure = "none"
                 ELSE /\ rr.ok /\ ex.kind = "ok"
                      /\ answers.update # "rpc" /\ ur.success
        summary == Summarize(l, [ inventory |-> answers.fetch.inventory,
                                  total |-> answers.fetch.total ])
    IN
    IF credential.receiverEmails = << >> THEN "noEmail"
    ELSE IF ~token THEN "error"
    ELSE IF answers.count.kind # "ok" THEN "error"
    ELSE IF answers.count.total = 0 THEN "noStock"
    ELSE IF answers.fetch.kind # "ok" THEN "error"
    ELSE IF summary.items_out_of_stock = 0 THEN "noStock"
    ELSE IF generateStockStatusEmailThrows(summary) THEN "error"
    ELSE "sent"

\* Positions of the list whose location ended in the per-location catch.
Failures(ps) == { i \in DOMAIN ps.outcomes : ps.outcomes[i].outcome = "error" }

\* C1: in one processAllClients run an exception raised while one location
\* is processed is caught at that location: the run goes on and returns
\* normally, errors gets exactly one entry for the location, and every other
\* location of the list is processed with the outcome it has when processed
\* alone, as if the failing one were not in the list.
C1_FailureIsolated ==
    LET ps == proc[Runner] IN
    (ps.op = "batch" /\ ps.idx >= 1) =>
       /\ ps.pc = "done" =>
             /\ ps.ret.kind = "return"
             /\ Len(ps.outcomes) = Len(ps.credentials)
             /\ ps.result.processedLocations = Len(ps.credentials)
       /\ Len(ps.outcomes) <= Len(ps.credentials)
       /\ \A i \in DOMAIN ps.outcomes :
             /\ ps.outcomes[i].locationId = ps.credentials[i].location_id
             /\ ps.outcomes[i].outcome =
                    SoloOutcome(ps.credentials[i],
                                env[ps.credentials[i].location_id],
                                ps.outcomes[i].at)
       /\ Len(ps.result.errors) = Cardinality(Failures(ps))
       /\ \A i \in Failures(ps) :
             Cardinality({ j \in DOMAIN ps.result.errors :
                             ps.result.errors[j].locationId
                                 = ps.outcomes[i].locationId }) = 1
       /\ \A j \in DOMAIN ps.result.errors :
             \E i \in Failures(ps) :
                 ps.result.errors[j].locationId = ps.outcomes[i].locationId

\* A run has returned after its first location threw and its second one was
\* found fully stocked: one error entry, two locations processed.
C1_Witness ==
    LET ps == proc[Runner] IN
    /\ ps.op = "batch" /\ ps.pc = "done" /\ ps.ret.kind = "return"
    /\ Len(ps.outcomes) = 2
    /\ ps.outcomes[1].outcome = "error"
    /\ ps.outcomes[2].outcome = "noStock"
    /\ Len(ps.result.errors) = 1
    /\ ps.result.errors[1].locationId = ps.outcomes[1].locationId
    /\ ps.result.processedLocations = 2
    /\ ps.result.locationsWithoutStock = 1

(* ---- C11 ---- *)

\* C11: getCredentials(location_id), its SQL statements executing, answers
\* NOT_FOUND (404) for a location with no row - neither a throw nor a 500 -,
\* answers 200 with the row for a location that has one, and called without
\* an argument answers 200 with every stored row.
C11_GetCredentialsAnswers ==
    [][ (StoreCall("getCredentials") /\ ~reply'.sqlFails) =>
          LET l == reply'.location_id IN
          /\ (l # "" /\ ~Stored(l)) =>
                /\ reply'.httpCode = 404
                /\ reply'.data = << >>
          /\ (l # "" /\ Stored(l)) =>
                /\ reply'.httpCode = 200
                /\ reply'.data = << ProcessedRow(credentials[l]) >>
          /\ l = "" =>
                /\ reply'.httpCode = 200
                /\ { reply'.data[i] : i \in DOMAIN reply'.data }
                       = { ProcessedRow(credentials[k]) : k \in DOMAIN credentials }
                /\ Len(reply'.data) = Cardinality(DOMAIN credentials)
      ]_vars

(* ---- C12 ---- *)

\* The result of the call says that the row was not found.
SaysNotFound ==
    IF reply'.op = "updateTokenPair"
    THEN /\ ~reply'.success
         /\ reply'.message
                = <<"Credential with location_id '", reply'.location_id, "' not found">>
    ELSE /\ ~reply'.success
         /\ reply'.httpCode = 404
         /\ reply'.errorCode = "NOT_FOUND"

\* C12: updateTokenPair, updateReceiverEmails and deleteCredential addressed
\* to a location_id that has no row (their SQL statements executing) each
\* return a not-found failure result, create no row and leave every existing
\* row unchanged.
C12_MissingRowNotFound ==
    [][ ( /\ \E op \in {"updateTokenPair", "updateReceiverEmails", "deleteCredential"} :
                StoreCall(op)
          /\ reply'.location_id # ""
          /\ ~Stored(reply'.location_id)
          /\ ~reply'.sqlFails ) =>
            /\ SaysNotFound
            /\ credentials' = credentials
      ]_vars

(* ------------------------------- C13 ----------------------------------- *)

\* The columns of a row other than the recipient list.
OtherColumns == {"company_id", "access_token", "refresh_token", "expires_at"}

\* C13: after a successful updateReceiverEmails(location, E), a
\* getCredentials(location) answers with a recipient list equal to E, in the
\* same order and with nothing left of the previous list, and company_id,
\* access_token, refresh_token and expires_at are what they were before the
\* update.
C13_ReceiverEmailsReplaced ==
    [][ (StoreCall("updateReceiverEmails") /\ reply'.success) =>
          LET l   == reply'.location_id
              got == getCredentials(credentials', l, << >>, FALSE)
          IN  /\ got.httpCode = 200
              /\ HasData(got)
              /\ got.data.receiverEmails = reply'.request
              /\ \A column \in OtherColumns : got.data[column] = credentials[l][column]
      ]_vars

\* A row inserted with the recipient a@x.io has had its list replaced by
\* (b@x.io, a@x.io).
C13_Witness ==
    /\ calls.store = 2
    /\ reply.op = "updateReceiverEmails"
    /\ reply.success
    /\ reply.request = <<"b@x.io", "a@x.io">>
    /\ Stored(reply.location_id)
    /\ credentials[reply.location_id].company_id = "C2"
    /\ jsonToArray(credentials[reply.location_id].receiver_emails) = reply.request

(* ------------------------------- C14 ----------------------------------- *)

\* Nothing has been done for any location by invocation ps.
NothingProcessed(ps) ==
    /\ ps.idx = 0
    /\ ps.loc = ""
    /\ ps.outcomes = << >>
    /\ ps.result = EmptyBatchResult
    /\ ps.validated = "none"
    /\ ps.oauthCalls = 0
    /\ ps.refreshCalls = 0
    /\ ps.inventoryCalls = 0
    /\ ps.storeWrites = 0

\* C14: when the getCredentials() call at the start of processAllClients does
\* not come back with status SUCCESS and data, the run ends by raising an
\* error instead of returning a result, and no location has been processed:
\* no token validation, no OAuth exchange, no inventory call, no email, and
\* the table is what it was.
C14_ListingFailureAborts ==
    [][ \A p \in Procs :
          (Leaves(p, "b_list") /\ proc'[p].fault # "none") =>
             /\ proc'[p].pc = "done"
             /\ proc'[p].ret.kind = "throw"
             /\ NothingProcessed(proc'[p])
             /\ credentials' = credentials
      ]_vars

\* A run over a table holding a location with recipients has ended with the
\* error of the failed listing.
C14_Witness ==
    /\ proc[Runner].op = "batch"
    /\ proc[Runner].pc = "done"
    /\ proc[Runner].fault = "sql"
    /\ proc[Runner].ret.kind = "throw"
    /\ Carries(proc[Runner].ret.message, <<"Failed to retrieve credentials: ">>)
    /\ \E l \in DOMAIN credentials : jsonToArray(credentials[l].receiver_emails) # << >>

(* --------------------------- C15, C16, C17 ----------------------------- *)

\* The outcome recorded for the location the loop has just finished.
LastOutcome(ps) == ps.outcomes[Len(ps.outcomes)].outcome

\* The recipients of the location the loop has just finished.
LastRecipients(ps) == ps.credentials[ps.idx - 1].receiverEmails

\* The loop has just finished a location for which queryInventorySummary
\* returned a summary.
Summarized(ps) ==
    /\ ps.op = "batch"
    /\ ps.pc = "b_iter"
    /\ ps.idx > 1
    /\ ps.inventorySummary.location_id = ps.loc

\* C15: a location with recipients whose summary has items_out_of_stock > 0
\* gets its email: the location ends as sent, and no errors entry is recorded
\* for it.
C15_OutOfStockEmailed ==
    \A p \in Procs :
       (Summarized(proc[p]) /\ proc[p].inventorySummary.items_out_of_stock > 0) =>
          /\ LastOutcome(proc[p]) = "sent"
          /\ \A i \in DOMAIN proc[p].result.errors :
                 proc[p].result.errors[i].locationId # proc[p].loc

\* C16: a location whose recipient list is empty only increments
\* processedLocations and locationsWithoutEmails: no error is recorded, no
\* token is validated, no OAuth exchange, inventory call or store write is
\* made, no email is sent, and the table is left as it was.
C16_NoRecipientsSkipped ==
    [][ \A p \in Procs :
          LET ps == proc[p]
              ns == proc'[p]
          IN ( /\ ps.op = "batch"
               /\ ps.pc = "b_iter"
               /\ ns # ps
               /\ ps.idx <= Len(ps.credentials)
               /\ ps.credentials[ps.idx].receiverEmails = << >> ) =>
                /\ ns.result = [ ps.result EXCEPT !.processedLocations = @ + 1,
                                                  !.locationsWithoutEmails = @ + 1 ]
                /\ ns.pc = "b_iter"
                /\ ns.idx = ps.idx + 1
                /\ LastOutcome(ns) = "noEmail"
                /\ ns.validated = "none"
                /\ ns.oauthCalls = 0
                /\ ns.refreshCalls = 0
                /\ ns.inventoryCalls = 0
                /\ ns.storeWrites = 0
                /\ credentials' = credentials
      ]_vars

\* A finished run that skipped a location for having no recipient and
\* recorded no error.
C16_Witness ==
    /\ proc[Runner].op = "batch"
    /\ proc[Runner].pc = "done"
    /\ proc[Runner].ret.kind = "return"
    /\ proc[Runner].result.locationsWithoutEmails = 1
    /\ proc[Runner].result.processedLocations = 2
    /\ \E i \in DOMAIN proc[Runner].outcomes :
          /\ proc[Runner].outcomes[i].outcome = "noEmail"
          /\ jsonToArray(credentials[proc[Runner].outcomes[i].locationId].receiver_emails)
                = << >>

\* C17: when queryInventorySummary returns a summary with
\* items_out_of_stock = 0 for a location with recipients, the location only
\* increments locationsWithoutStock and no email is sent for it; the run gets
\* to send an email only for a location with recipients whose summary has
\* items_out_of_stock > 0.
C17_NothingOutOfStockNoEmail ==
    [][ \A p \in Procs :
          LET ps == proc[p]
              ns == proc'[p]
          IN /\ ( /\ ps.op = "batch"
                  /\ ps.pc \in {"i_count", "i_fetch"}
                  /\ Summarized(ns)
                  /\ ns.inventorySummary.items_out_of_stock = 0 ) =>
                   /\ LastRecipients(ns) # << >>
                   /\ ns.result = [ ps.result EXCEPT !.locationsWithoutStock = @ + 1 ]
                   /\ LastOutcome(ns) = "noStock"
             /\ ( \/ ns.pc = "b_send"
                  \/ ns.result.emailsSent > ps.result.emailsSent ) =>
                   /\ ns.credentials[ns.idx].receiverEmails # << >>
                   /\ ns.inventorySummary.items_out_of_stock > 0
      ]_vars

\* A location with recipients and a stocked item has been counted as having
\* nothing out of stock.
C17_Witness ==
    /\ Summarized(proc[Runner])
    /\ proc[Runner].items # << >>
    /\ proc[Runner].inventorySummary.items_out_of_stock = 0
    /\ LastRecipients(proc[Runner]) # << >>
    /\ LastOutcome(proc[Runner]) = "noStock"
    /\ proc[Runner].result.locationsWithoutStock = 1
    /\ proc[Runner].result.emailsSent = 0

(* --------------------------- C18, C19, C20 ----------------------------- *)

\* queryInventorySummary has returned a summary to its caller.
QueryReturned(ps) == ps.op = "query" /\ ps.pc = "done" /\ ps.ret.kind = "return"

\* C18: when the count call (limit=0) reports a total of 0,
\* queryInventorySummary returns a summary with items_out_of_stock = 0,
\* items_with_stock = 0 and total_available_quantity = 0, having made exactly
\* one inventory API call: the full fetch is never issued.
C18_EmptyInventoryOneCall ==
    \A p \in Procs :
       (proc[p].op = "query" /\ proc[p].pc = "done" /\ proc[p].counted = 0) =>
          /\ proc[p].ret.kind = "return"
          /\ proc[p].ret.summary.items_out_of_stock = 0
          /\ proc[p].ret.summary.items_with_stock = 0
          /\ proc[p].ret.summary.total_available_quantity = 0
          /\ proc[p].inventoryCalls = 1
          /\ proc[p].limits = <<0>>

\* A query whose count call reported 0 has returned.
C18_Witness ==
    /\ QueryReturned(proc[Runner])
    /\ proc[Runner].counted = 0
    /\ proc[Runner].ret.summary.location_id = "L1"
    /\ proc[Runner].ret.summary.total_items = 0

\* The sum of availableQuantity over the first k items, an item without the
\* field adding nothing.
RECURSIVE SumAvailable(_, _)
SumAvailable(items, k) ==
    IF k = 0 THEN 0
    ELSE SumAvailable(items, k - 1)
           + (IF "availableQuantity" \in DOMAIN items[k]
              THEN items[k].availableQuantity ELSE 0)

\* C19: when the count call reports total > 0, queryInventorySummary issues
\* one fetch with limit equal to that total, and the summary it returns has
\* total_available_quantity = the sum of availableQuantity over the fetched
\* items, unique_products = the number of distinct non-empty product
\* identifiers, items_with_stock = the number of items with
\* availableQuantity > 0 and items_out_of_stock = the number of items whose
\* availableQuantity is 0 or missing; the two counts add up to the number of
\* fetched items.
C19_SummaryOfFetchedItems ==
    \A p \in Procs :
       LET ps      == proc[p]
           items   == ps.items
           summary == ps.ret.summary
       IN (ps.op = "query" /\ ps.pc = "done" /\ ps.counted > 0) =>
             /\ ps.limits = <<0, ps.counted>>
             /\ ps.inventoryCalls = 2
             /\ (ps.ret.kind = "return") =>
                   /\ summary.total_available_quantity = SumAvailable(items, Len(items))
                   /\ summary.unique_products =
                         Cardinality({ items[i].product : i \in DOMAIN items } \ {""})
                   /\ summary.items_with_stock =
                         Cardinality({ i \in DOMAIN items :
                                         /\ "availableQuantity" \in DOMAIN items[i]
                                         /\ items[i].availableQuantity > 0 })
                   /\ summary.items_out_of_stock =
                         Cardinality({ i \in DOMAIN items :
                                         \/ "availableQuantity" \notin DOMAIN items[i]
                                         \/ items[i].availableQuantity = 0 })
                   /\ summary.items_with_stock + summary.items_out_of_stock = Len(items)

\* A query has returned the summary of two fetched items, one of them with
\* no availableQuantity and one with an empty product identifier.
C19_Witness ==
    /\ QueryReturned(proc[Runner])
    /\ proc[Runner].counted = MaxItems
    /\ Len(proc[Runner].items) = 2
    /\ \E i, j \in DOMAIN proc[Runner].items :
          /\ "availableQuantity" \notin DOMAIN proc[Runner].items[i]
          /\ proc[Runner].items[j].product = ""
    /\ proc[Runner].ret.summary.items_out_of_stock = 1
    /\ proc[Runner].ret.summary.items_with_stock = 1
    /\ proc[Runner].ret.summary.unique_products = 1

\* C20: the summary returned by queryInventorySummary carries the list of
\* out-of-stock product display names (the out_of_stock_products the email
\* body is built from), with one entry for each item counted in
\* items_out_of_stock.
C20_SummaryNamesOutOfStock ==
    \A p \in Procs :
       QueryReturned(proc[p]) =>
          /\ ~generateStockStatusEmailThrows(proc[p].ret.summary)
          /\ Len(proc[p].ret.summary.out_of_stock_products)
                = proc[p].ret.summary.items_out_of_stock

(* ------------------------------- C21 ----------------------------------- *)

\* The invocation has made no call on the store, the OAuth endpoint or the
\* inventory API.
NothingCalled(ps) ==
    /\ ps.validated = "none"
    /\ ps.refreshCalls = 0
    /\ ps.oauthCalls = 0
    /\ ps.storeWrites = 0
    /\ ps.inventoryCalls = 0
    /\ ps.responses = << >>

\* Token acquisition failed (no inventory request was ever issued) or one of
\* the inventory requests did not answer with a readable 2xx body.
QueryFailed(ps) ==
    \/ ps.inventoryCalls = 0
    \/ \E i \in DOMAIN ps.responses : ps.responses[i] # "ok"

\* C21: queryInventorySummary throws on an empty location_id before any store
\* access or external call, and it throws, returning no partial summary,
\* whenever token acquisition, the count call or the full fetch fails.
C21_QueryFailsByThrowing ==
    \A p \in Procs :
       (proc[p].op = "query" /\ proc[p].pc = "done") =>
          /\ (proc[p].loc = "") =>
                /\ proc[p].ret.kind = "throw"
                /\ NothingCalled(proc[p])
          /\ QueryFailed(proc[p]) =>
                /\ proc[p].ret.kind = "throw"
                /\ proc[p].ret.summary = NoSummary

\* A query whose count call answered and whose full fetch failed has thrown.
C21_Witness ==
    /\ proc[Runner].op = "query"
    /\ proc[Runner].pc = "done"
    /\ proc[Runner].loc = "L1"
    /\ proc[Runner].responses = <<"ok", "network">>
    /\ proc[Runner].inventoryCalls = 2
    /\ proc[Runner].ret.kind = "throw"

(* ------------------------------- C22 ----------------------------------- *)

\* Positions at which an invocation waits for the store, the OAuth endpoint
\* or the inventory API.
CallPcs == {"v_get", "e_get", "r_get", "r_fetch", "r_update", "i_count", "i_fetch"}

\* C22: within one processAllClients run the locations are processed one at
\* a time in list order.  While the run waits on a call, the call is for the
\* element at the loop index and every earlier element of the list has its
\* outcome, in list order; a further location is taken up only at the head of
\* the loop, once the previous one is finished; and as long as a call has
\* not returned, the loop index does not move.
C22_OneLocationAtATime ==
    [][ \A p \in Procs :
          LET ps == proc[p]
              ns == proc'[p]
          IN (ns.op = "batch") =>
               /\ Len(ns.outcomes) = (IF ns.idx = 0 THEN 0 ELSE ns.idx - 1)
               /\ \A i \in DOMAIN ns.outcomes :
                      ns.outcomes[i].locationId = ns.credentials[i].location_id
               /\ (ns.pc \in CallPcs) =>
                      /\ ns.idx \in DOMAIN ns.credentials
                      /\ ns.loc = ns.credentials[ns.idx].location_id
               /\ (ns.result.processedLocations # ps.result.processedLocations) =>
                      /\ ps.pc = "b_iter"
                      /\ ns.result.processedLocations = ps.idx
                      /\ Len(ps.outcomes) = ps.idx - 1
               /\ (ps.pc \in CallPcs /\ ns.pc = ps.pc) =>
                      /\ ns.idx = ps.idx
                      /\ ns.outcomes = ps.outcomes
      ]_vars

\* A finished run over two locations, the first of which failed after a
\* call and the second of which was queried afterwards.
C22_Witness ==
    /\ proc[Runner].op = "batch"
    /\ proc[Runner].pc = "done"
    /\ proc[Runner].ret.kind = "return"
    /\ Len(proc[Runner].outcomes) = 2
    /\ proc[Runner].outcomes[1].outcome = "error"
    /\ proc[Runner].outcomes[2].outcome = "noStock"
    /\ proc[Runner].inventoryCalls = 2

(* ------------------------------- C23 ----------------------------------- *)

\* C23: within one processAllClients run each location is attempted at most
\* once.  For the location the run is at, at most one refresh with at most
\* one OAuth token exchange and one store write has been made, and at most
\* one count request followed by at most one full request; no location has
\* two outcomes, so one whose refresh or fetch failed is not taken up again.
C23_AtMostOncePerLocation ==
    \A p \in Procs :
       LET ps == proc[p] IN
       (ps.op = "batch") =>
          /\ ps.refreshCalls <= 1
          /\ ps.oauthCalls <= 1
          /\ ps.storeWrites <= 1
          /\ ps.inventoryCalls = Len(ps.limits)
          /\ Len(ps.limits) <= 2
          /\ Len(ps.limits) >= 1 => ps.limits[1] = 0
          /\ Len(ps.limits) = 2 => ps.limits[2] > 0
          /\ Len(ps.responses) <= Len(ps.limits)
          /\ \A i, j \in DOMAIN ps.outcomes :
                 ps.outcomes[i].locationId = ps.outcomes[j].locationId => i = j
          /\ ps.result.processedLocations <= Len(ps.credentials)

\* A finished run in which the first location failed in its refresh and the
\* second in its full fetch, each attempted once.
C23_Witness ==
    /\ proc[Runner].op = "batch"
    /\ proc[Runner].pc = "done"
    /\ proc[Runner].ret.kind = "return"
    /\ proc[Runner].result.processedLocations = 2
    /\ Len(proc[Runner].result.errors) = 2
    /\ proc[Runner].result.errors[1].locationId # proc[Runner].result.errors[2].locationId
    /\ proc[Runner].responses = <<"ok", "network">>
    /\ \E l \in DOMAIN env : env[l].oauth.kind = "status"

(* ------------------------------- C24 ----------------------------------- *)

\* C24: no step of a validateToken, refreshToken, ensureValidToken,
\* queryInventorySummary or processAllClients invocation adds or removes a
\* credential row.  The set of stored location_ids changes only in a direct
\* insertCredential or deleteCredential call; a refresh rewrites the tokens
\* of the row in place and leaves its identity and recipients alone.
C24_RowsOnlyByInsertDelete ==
    [][ /\ (DOMAIN credentials' # DOMAIN credentials) =>
              \/ StoreCall("insertCredential")
              \/ StoreCall("deleteCredential")
        /\ (calls'.store = calls.store) =>
              \A l \in DOMAIN credentials :
                 /\ l \in DOMAIN credentials'
                 /\ credentials'[l].location_id = credentials[l].location_id
                 /\ credentials'[l].company_id = credentials[l].company_id
                 /\ credentials'[l].receiver_emails = credentials[l].receiver_emails
      ]_vars

\* A batch run has refreshed the expired credential of L1 in place.
C24_Witness ==
    /\ proc[Runner].op = "batch"
    /\ proc[Runner].pc = "done"
    /\ calls.store = 0
    /\ Stored("L1")
    /\ credentials["L1"].company_id = "C2"
    /\ credentials["L1"].access_token = "A2"
    /\ credentials["L1"].expires_at # toISOString(0)
    /\ DOMAIN credentials = {"L1"}

(* ------------------------------- C25 ----------------------------------- *)

\* The row has its three token columns.
Complete(row) ==
    row.access_token # "" /\ row.refresh_token # "" /\ row.expires_at # ""

\* C25: queryInventorySummary makes no inventory API call on a record that
\* lacks access_token, refresh_token or expires_at.  When the first inventory
\* request of a query is issued, the stored record of the location is
\* complete (as found, or after the refresh that completed it) and the
\* request carries its access token.
C25_IncompleteRecordUnused ==
    [][ \A p \in Procs :
          ( /\ proc[p].op = "query"
            /\ proc[p].inventoryCalls = 0
            /\ proc'[p].inventoryCalls = 1 ) =>
               /\ proc[p].loc \in DOMAIN credentials'
               /\ Complete(credentials'[proc[p].loc])
               /\ proc'[p].accessToken = credentials'[proc[p].loc].access_token
      ]_vars

(* ------------------------------- C26 ----------------------------------- *)

\* The run ended on the failure of its getCredentials() call.
AbortedOnListing(ps) ==
    ps.pc = "done" /\ ps.idx = 0 /\ ps.fault # "none"

\* C26: the scheduled invocation raises exactly when processAllClients
\* aborted on the credential-list fetch; when the run completed, per-location
\* errors are only logged and the invocation finishes without raising.
C26_ScheduledRaisesOnAbortOnly ==
    (reply.op = "scheduled") =>
       /\ ~reply.success <=> AbortedOnListing(proc[Runner])
       /\ (proc[Runner].ret.kind = "return") =>
             /\ reply.success
             /\ reply.data = proc[Runner].result.errors

\* A scheduled invocation has finished without raising after a run that
\* recorded an error for a location.
C26_Witness ==
    /\ reply.op = "scheduled"
    /\ reply.success
    /\ Len(reply.data) >= 1
    /\ proc[Runner].result.processedLocations = 2
    /\ proc[Runner].ret.kind = "return"

(* ------------------------------- C27 ----------------------------------- *)

\* An address of the form local@domain.tld, no part empty, free of blanks
\* and of further "@".
WellFormed(address) ==
    \E i, j \in 1..Len(address) :
       /\ 1 < i /\ i + 1 < j /\ j < Len(address)
       /\ address[i] = "@"
       /\ address[j] = "."
       /\ { address[k] : k \in DOMAIN address \ {i} } \cap {"@", " "} = {}

\* The error codes that match what is wrong with a request.
Defects(request) ==
    (IF request.locationId = "" THEN {"MISSING_LOCATION_ID"} ELSE {})
    \cup (IF request.appPassword = "" THEN {"MISSING_PASSWORD"} ELSE {})
    \cup (IF request.emailList.kind # "array" THEN {"INVALID_EMAIL_LIST"} ELSE {})
    \cup (IF request.appPassword \notin {"", APP_PASSWORD}
          THEN {"INVALID_PASSWORD"} ELSE {})
    \cup (IF \E i \in DOMAIN request.emailList.items :
               ~WellFormed(request.emailList.items[i])
          THEN {"INVALID_EMAIL_FORMAT"} ELSE {})

BulkSend(ps) == ps.op \in {"bulk", "bulkParallel"}

\* C28: with sendBulkEmail and with sendBulkEmailParallel no address is
\* attempted twice, and when the call has returned every address has been
\* attempted exactly once whatever happened to the others, the result has
\* one entry per address in request order, totalSent + totalFailed is the
\* number of addresses and totalSent the number of sends that succeeded; the
\* two strategies return the same totals for the same request and outcomes.
C28_EveryAddressOnce ==
    /\ \A p \in Procs :
          LET ps == proc[p] IN
          BulkSend(ps) =>
             /\ \A i \in DOMAIN ps.sends : ps.sends[i].attempts <= 1
             /\ (ps.pc = "done") =>
                   /\ ps.ret.kind = "return"
                   /\ DOMAIN ps.sends = DOMAIN ps.receiverEmails
                   /\ \A i \in DOMAIN ps.sends : ps.sends[i].attempts = 1
                   /\ Len(ps.bulk.results) = Len(ps.receiverEmails)
                   /\ \A i \in DOMAIN ps.receiverEmails :
                          /\ ps.bulk.results[i].email = ps.receiverEmails[i]
                          /\ ps.bulk.results[i].success = (env[i] = "sent")
                   /\ ps.bulk.totalSent + ps.bulk.totalFailed = Len(ps.receiverEmails)
                   /\ ps.bulk.totalSent =
                         Cardinality({ i \in DOMAIN ps.receiverEmails : env[i] = "sent" })
    /\ \A p, q \in Procs :
          ( /\ BulkSend(proc[p]) /\ BulkSend(proc[q])
            /\ proc[p].pc = "done" /\ proc[q].pc = "done"
            /\ proc[p].receiverEmails = proc[q].receiverEmails ) =>
               /\ proc[p].bulk.totalSent = proc[q].bulk.totalSent
               /\ proc[p].bulk.totalFailed = proc[q].bulk.totalFailed

\* Both strategies have returned for two recipients, the send to the first
\* having thrown and the send to the second having succeeded.
C28_Witness ==
    /\ \E p, q \in Procs :
          /\ proc[p].op = "bulk" /\ proc[p].pc = "done"
          /\ proc[q].op = "bulkParallel" /\ proc[q].pc = "done"
          /\ Len(proc[p].receiverEmails) = 2
          /\ proc[q].receiverEmails = proc[p].receiverEmails
          /\ proc[p].bulk.totalSent = 1 /\ proc[p].bulk.totalFailed = 1
    /\ env[1] = "throw"
    /\ env[2] = "sent"

(* ------------------------------- C29 ----------------------------------- *)

\* C29: validateToken has no side effects: no step of a validateToken call,
\* whatever credential it finds, changes the credential table or calls the
\* store for a write, and the call never reaches refreshToken or the OAuth
\* endpoint; it returns its verdict.
C29_ValidateHasNoSideEffects ==
    [][ \A p \in Procs :
          (proc'[p].op = "validate" /\ proc'[p] # proc[p]) =>
             /\ credentials' = credentials
             /\ lastWrite' = lastWrite
             /\ proc'[p].pc \in {"v_get", "done"}
             /\ proc'[p].oauthCalls = 0
             /\ proc'[p].refreshCalls = 0
             /\ proc'[p].storeWrites = 0
             /\ (proc'[p].pc = "done") => proc'[p].ret.kind = "return" ]_vars

\* validateToken has returned "not valid" for a stored credential whose
\* token has expired, and the row still holds what was last written to it.
C29_Witness ==
    \E p \in Procs :
       /\ proc[p].op = "validate" /\ proc[p].pc = "done"
       /\ Stored(proc[p].loc)
       /\ credentials[proc[p].loc].expires_at # ""
       /\ ~proc[p].ret.valid
       /\ proc[p].oauthCalls = 0
       /\ lastWrite[proc[p].loc] = TripleOf(credentials[proc[p].loc])

(* ------------------------------- C30 ----------------------------------- *)

\* refreshToken of invocation p returned success.
Refreshed(p) ==
    proc[p].refreshResult.kind = "return" /\ proc[p].refreshResult.success

EarlyFailures ==
    { "No credentials found for location_id: ",
      "No refresh token found in credentials",
      "Network error: ",
      "Failed to refresh token: ",
      "Incomplete token response from OAuth provider" }

\* refreshToken of invocation p returns in this step, with success = false.
RefreshFails(p) ==
    /\ proc[p].refreshResult.kind = "none"
    /\ proc'[p].refreshResult.kind = "return"
    /\ ~proc'[p].refreshResult.success

\* C31: when refreshToken returns success = false for a missing credential,
\* an empty refresh_token, a network error, a non-2xx answer or an
\* incomplete token response, it has made no store write and none of its
\* steps changed the table; for a missing credential or an empty
\* refresh_token it has made no OAuth request either, and for the other
\* three exactly one.
C31_FailedRefreshLeavesStore ==
    [][ \A p \in Procs :
          /\ (Leaves(p, "r_get") \/ Leaves(p, "r_fetch")) =>
                 /\ credentials' = credentials
                 /\ lastWrite' = lastWrite
          /\ ( /\ Leaves(p, "r_get")
               /\ \/ ~Stored(proc[p].loc)
                  \/ credentials[proc[p].loc].refresh_token = "" ) =>
                 /\ RefreshFails(p)
                 /\ proc'[p].oauthCalls = 0
          /\ ( /\ RefreshFails(p)
               /\ Head(proc'[p].refreshResult.message) \in EarlyFailures ) =>
                 /\ credentials' = credentials
                 /\ proc'[p].storeWrites = 0
                 /\ proc'[p].oauthCalls =
                       IF Head(proc'[p].refreshResult.message) \in
                            { "No credentials found for location_id: ",
                              "No refresh token found in credentials" }
                       THEN 0 ELSE 1 ]_vars

\* refreshToken has returned "Incomplete token response" after one OAuth
\* request, and the row still holds the tokens last written to it.
C31_Witness ==
    \E p \in Procs :
       /\ proc[p].op = "refresh" /\ proc[p].pc = "done"
       /\ proc[p].ret.kind = "return" /\ ~proc[p].ret.success
       /\ Head(proc[p].ret.message) = "Incomplete token response from OAuth provider"
       /\ proc[p].oauthCalls = 1 /\ proc[p].storeWrites = 0
       /\ Stored(proc[p].loc)
       /\ credentials[proc[p].loc].refresh_token = "R1"
       /\ lastWrite[proc[p].loc] = TripleOf(credentials[proc[p].loc])

(* ------------------------------- C32 ----------------------------------- *)

\* C32: when the credential was deleted after refreshToken read it and is
\* absent as the store executes the updateTokenPair call, the refresh
\* returns success = false and the row stays absent.
C32_RefreshNeverRecreates ==
    [][ \A p \in Procs :
          (Leaves(p, "r_update") /\ ~Stored(proc[p].loc)) =>
             /\ ~Stored(proc[p].loc)'
             /\ credentials' = credentials
             /\ proc'[p].refreshResult.kind = "return"
             /\ ~proc'[p].refreshResult.success
             /\ proc'[p].refreshResult.newRefreshToken = "" ]_vars

\* refreshToken read the refresh_token R1 of a credential, exchanged it, and
\* has returned a failed update for a row that is no longer there.
C32_Witness ==
    \E p \in Procs :
       /\ proc[p].op = "refresh" /\ proc[p].pc = "done"
       /\ proc[p].refresh_token = "R1"
       /\ proc[p].oauthCalls = 1 /\ proc[p].storeWrites = 1
       /\ proc[p].fault = "none"
       /\ ~Stored(proc[p].loc)
       /\ proc[p].ret.kind = "return" /\ ~proc[p].ret.success
       /\ Head(proc[p].ret.message) = "Failed to update credentials: "

(* ------------------------------- C33 ----------------------------------- *)

\* updateTokenPair applied to table creds.
WithTokens(creds, l, triple) ==
    updateTokenPair(creds, l, triple.access_token, triple.refresh_token,
                    triple.expires_at, FALSE).creds

\* updateReceiverEmails applied to table creds.
WithRecipients(creds, l, emails) ==
    updateReceiverEmails(creds, l, emails, FALSE).creds

\* C33: updateTokenPair and updateReceiverEmails for one location commute.
\* A successful updateTokenPair leaves the recipient list of the row as it
\* was and a successful updateReceiverEmails leaves its token triple as it
\* was; and whichever of the two the store has just executed, executing the
\* other one next gives the table that the opposite order gives, whose row
\* holds the new token triple and the new recipient list.
C33_TokenAndRecipientUpdatesCommute ==
    [][ /\ (StoreCall("updateTokenPair") /\ reply'.success) =>
             LET l == reply'.location_id IN
             /\ TripleOf(credentials'[l]) = lastWrite'[l]
             /\ credentials'[l].receiver_emails = credentials[l].receiver_emails
             /\ credentials' = WithTokens(credentials, l, lastWrite'[l])
             /\ \A emails \in EmailLists :
                   /\ WithRecipients(credentials', l, emails) =
                         WithTokens(WithRecipients(credentials, l, emails), l,
                                    lastWrite'[l])
                   /\ TripleOf(WithRecipients(credentials', l, emails)[l]) =
                         lastWrite'[l]
                   /\ WithRecipients(credentials', l, emails)[l].receiver_emails =
                         arrayToJson(emails)
        /\ (StoreCall("updateReceiverEmails") /\ reply'.success) =>
             LET l == reply'.location_id IN
             /\ TripleOf(credentials'[l]) = TripleOf(credentials[l])
             /\ credentials'[l].receiver_emails = arrayToJson(reply'.request)
             /\ credentials' = WithRecipients(credentials, l, reply'.request)
             /\ \A triple \in { t \in UpdateInputs : t.access_token # "" } :
                   /\ WithTokens(credentials', l, triple) =
                         WithRecipients(WithTokens(credentials, l, triple), l,
                                        reply'.request)
                   /\ TripleOf(WithTokens(credentials', l, triple)[l]) = triple
                   /\ WithTokens(credentials', l, triple)[l].receiver_emails =
                         arrayToJson(reply'.request)
      ]_vars

\* The store has executed an updateReceiverEmails and then an
\* updateTokenPair for one row, which holds the new list and the new triple.
C33_Witness ==
    /\ reply.op = "updateTokenPair"
    /\ reply.success
    /\ Stored(reply.location_id)
    /\ credentials[reply.location_id].receiver_emails =
          arrayToJson(<<"b@x.io", "a@x.io">>)
    /\ credentials[reply.location_id].company_id = "C1"
    /\ TripleOf(credentials[reply.location_id]) =
          TokenTriple("A2", "R2", toISOString(2 * TickMs))

(* ------------------------------- C34 ----------------------------------- *)

\* The number of locations the run has finished with the given outcome.
Classified(ps, outcome) ==
    Cardinality({ i \in DOMAIN ps.outcomes : ps.outcomes[i].outcome = outcome })

\* C34: at the head of the loop and when processAllClients has returned,
\* every location counted in processedLocations has exactly one outcome -
\* skipped for no recipient, skipped for nothing out of stock, bulk email
\* issued, or error recorded - in the order of the fetched list, the
\* counters of the result are the numbers of locations with each outcome,
\* and locationsWithoutEmails + locationsWithoutStock + the number of errors
\* + the number of bulk sends is processedLocations.
C34_EveryLocationClassifiedOnce ==
    \A p \in Procs :
       LET ps == proc[p] IN
       ( /\ ps.op = "batch"
         /\ \/ ps.pc = "b_iter"
            \/ ps.pc = "done" /\ ps.ret.kind = "return" ) =>
            /\ Len(ps.outcomes) = ps.result.processedLocations
            /\ Len(ps.outcomes) <= Len(ps.credentials)
            /\ \A i \in DOMAIN ps.outcomes :
                  /\ ps.outcomes[i].outcome \in {"noEmail", "noStock", "sent", "error"}
                  /\ ps.outcomes[i].locationId = ps.credentials[i].location_id
            /\ ps.result.locationsWithoutEmails = Classified(ps, "noEmail")
            /\ ps.result.locationsWithoutStock = Classified(ps, "noStock")
            /\ Len(ps.result.errors) = Classified(ps, "error")
            /\ ps.result.locationsWithoutEmails + ps.result.locationsWithoutStock
                  + Len(ps.result.errors) + Classified(ps, "sent")
                  = ps.result.processedLocations
            /\ (ps.pc = "done") =>
                  ps.result.processedLocations = Len(ps.credentials)

\* A run over two locations has returned, one skipped for having no
\* recipient and one with an error recorded.
C34_Witness ==
    /\ proc[Runner].op = "batch"
    /\ proc[Runner].pc = "done"
    /\ proc[Runner].ret.kind = "return"
    /\ proc[Runner].result.processedLocations = 2
    /\ proc[Runner].result.locationsWithoutEmails = 1
    /\ Len(proc[Runner].result.errors) = 1
    /\ Classified(proc[Runner], "error") = 1

(* ------------------------------- C35 ----------------------------------- *)

\* processAllClients has ended: it raised on the list fetch, or it returned
\* a result that counts every credential of the fetched list.
RunEnded(ps) ==
    /\ ps.pc = "done"
    /\ \/ ps.ret.kind = "throw" /\ AbortedOnListing(ps)
       \/ /\ ps.ret.kind = "return"
          /\ ps.result.processedLocations = Len(ps.credentials)

\* C35: when every store call, OAuth exchange and inventory call the run
\* awaits eventually returns or fails, a processAllClients run that has
\* started ends: it raises on the list fetch or returns a result whose
\* processedLocations is the number of credentials in the fetched list.
C35_RunTerminates ==
    (proc[Runner].op = "batch") ~> RunEnded(proc[Runner])

\* A run over two locations, both with recipients, has returned after an
\* inventory call failed for one and a token refresh for the other.
C35_Witness ==
    /\ proc[Runner].op = "batch"
    /\ RunEnded(proc[Runner])
    /\ proc[Runner].ret.kind = "return"
    /\ Len(proc[Runner].credentials) = 2
    /\ proc[Runner].result.processedLocations = 2
    /\ Len(proc[Runner].result.errors) = 2

(* ------------------------------- C36 ----------------------------------- *)

\* The row of invocation q's location holds the token triple that q's
\* successful ensureValidToken refresh stored.
HoldsRefreshOf(q) ==
    /\ proc[q].op = "ensure" /\ proc[q].pc = "done"
    /\ Refreshed(q)
    /\ Stored(proc[q].loc)
    /\ TripleOf(credentials[proc[q].loc]) =
          TokenTriple(proc[q].refreshResult.value,
                      proc[q].refreshResult.newRefreshToken,
                      proc[q].refreshResult.expiresAt)

CallbackAnswered ==
    calls'.invocations = calls.invocations + 1 /\ reply'.op = "oauthCallback"

\* C37: when the OAuth callback has exchanged its code for a location_id
\* that already has a row, insertCredential refuses the credential as a
\* duplicate, the table - and with it the stored token triple - stays as it
\* was, and the page answered is still the success page (status 200).
C37_CallbackOnExistingRow ==
    [][ ( /\ CallbackAnswered
          /\ reply'.data[1] = 1
          /\ Stored(reply'.location_id) ) =>
             /\ credentials' = credentials
             /\ lastWrite' = lastWrite
             /\ reply'.data[2] = FALSE
             /\ ~reply'.sqlFails =>
                   reply'.errorCode \in {"DUPLICATE_LOCATION", ""}
             /\ reply'.httpCode = 200
             /\ reply'.success ]_vars

\* A callback that obtained the pair A3/R3 for a location whose row holds
\* A2/R2 has been answered with the success page, the insert having been
\* refused as a duplicate; the row still holds A2/R2.
C37_Witness ==
    /\ reply.op = "oauthCallback"
    /\ reply.success
    /\ reply.errorCode = "DUPLICATE_LOCATION"
    /\ reply.request.access_token = "A3"
    /\ reply.request.refresh_token = "R3"
    /\ Stored(reply.location_id)
    /\ credentials[reply.location_id].access_token = "A2"
    /\ credentials[reply.location_id].refresh_token = "R2"

====
